---- MODULE Spec2Model ----
(***************************************************************************)
(* GAUL population / entity core (ga_core.c): the entity pool with its id  *)
(* index (entity_array) and rank index (entity_iarray), the population     *)
(* constructors, seeding, the process-wide population table with its lock, *)
(* and the population and entity snapshot files.                           *)
(*                                                                         *)
(* Memory is modelled explicitly.  Populations and entities live at        *)
(* addresses; NULL is 0.  Reads and writes outside an array, and uses of   *)
(* freed entities, are undefined behaviour: the actions that can reach     *)
(* them take the outcome (the word read is NULL, the access goes through,  *)
(* or the process faults) as a nondeterministic input.  die() ends the     *)
(* process: err records it and nothing runs after.                         *)
(***************************************************************************)
EXTENDS Integers, Sequences, FiniteSets, TLC

VARIABLES pops, ents, pop_table, err, last, ubs, pop_table_lock, threads, file, mpi,
          evolution

vars == <<pops, ents, pop_table, err, last, ubs, pop_table_lock, threads, file, mpi,
          evolution>>

----------------------------------------------------------------------------
(* Bounds of the model. *)

\* stable_size arguments are drawn from 1..MaxStable
MaxStable == 1
\* ga_get_free_entity is not called at size >= MaxLive
MaxLive == 4
\* the same, in runs that go on after undefined accesses
MaxLiveUB == 3
\* the arrays of a population are not grown beyond this
MaxSlots == 8
\* addresses s_malloc hands out for populations
NumPopAddrs == 3
\* ga_genocide targets are drawn from 0..MaxTarget
MaxTarget == 1
\* undefined accesses a run survives before it faults
MaxUB == 3
\* threads that call the population table
NumThreads == 2

----------------------------------------------------------------------------
(* Values. *)

NULL == 0
GA_MIN_FITNESS == -1
TABLE_ERROR_INDEX == -1
\* ratios are kept in hundredths: 100 is 1.0
RATIO_ONE == 100

EntAddrs == 1..(NumPopAddrs * MaxSlots)
PopAddrs == 1..NumPopAddrs

(* What an access outside an array or to a freed entity can do: the word   *)
(* read is NULL, the access goes through, or the process faults.           *)
UBOutcomes == {"null", "continue", "segv"}

(* A pointer value read from memory that holds no entity pointer. *)
Garbage == -2

Slots == {"generation_hook", "iteration_hook", "data_destructor",
          "data_ref_incrementor", "chromosome_constructor",
          "chromosome_destructor", "chromosome_replicate",
          "chromosome_to_bytes", "chromosome_from_bytes",
          "chromosome_to_string", "evaluate", "seed", "adapt", "select_one",
          "select_two", "mutate", "crossover", "replace"}

(* A NULL function pointer, chromosome array and data list. *)
NULLFN == "NULL"
NoChromosome == <<>>
NoData == <<>>

(* An allele of a chromosome that was allocated and never written. *)
Uninit == -1

(* An entity structure that is not allocated (freed or never handed out). *)
NoEntity == [alloc |-> FALSE, fitness |-> GA_MIN_FITNESS,
             chromosome |-> NoChromosome, data |-> NoData]

(* A population address that holds no population structure. *)
NoPop == [alloc |-> FALSE]

(* pop_table == NULL *)
NoTable == [alloc |-> FALSE]

(* The last call: the operation, the population, the entity and the       *)
(* integer it was given, the pointer it returned (NULL when it returns     *)
(* none), the numbers of chromosome_constructor and chromosome_destructor  *)
(* invocations it made, and whether every rank it released was the last    *)
(* rank at that moment (tail), and the invocations of the seed callback    *)
(* it made, in their order: the entity passed and what the callback        *)
(* returned; the messages it received (recv) and the invocations of the    *)
(* evaluate callback it made (evals), in their order; the invocations of   *)
(* data_destructor and data_ref_incrementor it made and the phenome object *)
(* each was given (hooks).                                                 *)
NoCall == [op |-> "none", pop |-> NULL, ent |-> NULL, arg |-> 0, ret |-> NULL,
           ctor |-> 0, dtor |-> 0, tail |-> TRUE, seeds |-> <<>>, recv |-> <<>>,
           evals |-> <<>>, hooks |-> <<>>]

(* ga_evolution at rest: the driver's place in its loop (at), the          *)
(* population it runs on, the generations completed, its budget and why it *)
(* stopped.                                                                *)
NoEvolution == [at |-> "idle", pop |-> 0, generation |-> 0, max_generations |-> 0,
                reason |-> "none"]

(* The machine state an operation works on: the two heaps, the population *)
(* table, the error that ended the process (if any), the callback          *)
(* invocations counted so far, the pointer returned and the number of      *)
(* undefined accesses that went through (ubn).                             *)
World(ps, es, tb) == [pops |-> ps, ents |-> es, table |-> tb, err |-> "none",
                      ctor |-> 0, dtor |-> 0, ddtor |-> 0, incref |-> 0, ret |-> NULL,
                      ubn |-> 0, tail |-> TRUE, seeds |-> <<>>, file |-> <<>>,
                      mpi |-> <<>>, recv |-> <<>>, evals |-> <<>>, hooks |-> <<>>,
                      evolution |-> NoEvolution, node |-> 0]

Fail(w, e) == [w EXCEPT !.err = e]

(* TRUE and FALSE of the C code. *)
C_TRUE == 1
C_FALSE == 0

Threads == 1..NumThreads

(* A thread: the function of the population table it is in (fn) and the    *)
(* file that function is compiled from, where it stands in it (at), and    *)
(* the population and the id it passed.                                    *)
Idle == [fn |-> "none", file |-> "none", at |-> "idle", pop |-> NULL, id |-> 0]

NoThreads == [t \in Threads |-> Idle]

----------------------------------------------------------------------------
(* Helpers over arrays indexed from 0. *)

Min(S) == CHOOSE x \in S : \A y \in S : x <= y

NullArray(n) == [i \in 0..(n-1) |-> NULL]

(* a[i] = v, where a write outside the array lands outside the array. *)
SetCell(arr, i, v) == IF i \in DOMAIN arr THEN [arr EXCEPT ![i] = v] ELSE arr

(* for (i=from; i<newsize; i++) arr[i] = arr[i+1]; *)
ShiftDown(arr, from, newsize) ==
  [i \in DOMAIN arr |-> IF i >= from /\ i < newsize /\ (i+1) \in DOMAIN arr
                        THEN arr[i+1] ELSE arr[i]]

(* The entity structure a pointer leads to; a freed or garbage pointer     *)
(* leads to memory that holds no data list and no chromosomes.             *)
EntOf(w, e) == IF e \in EntAddrs THEN w.ents[e] ELSE NoEntity

IsLiveAddr(w, e) == e \in EntAddrs /\ w.ents[e].alloc

----------------------------------------------------------------------------
(* Memory chunks and chromosome callbacks (code outside ga_core.c). *)

(* mem_chunk_alloc(pop->entity_chunk): the chunk of population p keeps one *)
(* entity structure per id slot and hands out the one of the slot that is  *)
(* being filled, so a freed structure is re-used with its slot.            *)
mem_chunk_alloc(p, slot) == (p - 1) * MaxSlots + slot + 1

(* mem_chunk_free *)
mem_chunk_free(es, e) == IF e \in EntAddrs THEN [es EXCEPT ![e] = NoEntity] ELSE es

(* pop->chromosome_constructor: attaches num_chromosomes fresh chromosomes *)
(* of len_chromosomes alleles each; their contents are not initialised.    *)
chromosome_constructor(pop) ==
  [c \in 1..pop.num_chromosomes |-> [a \in 1..pop.len_chromosomes |-> Uninit]]

----------------------------------------------------------------------------
(* Lookups. *)

(* ga_get_entity_rank: first rank below size that holds e, else -1. *)
ga_get_entity_rank(pop, e) ==
  LET S == {r \in 0..(pop.size-1) : r \in DOMAIN pop.entity_iarray
                                    /\ pop.entity_iarray[r] = e}
  IN IF S = {} THEN -1 ELSE Min(S)

(* ga_get_entity_id: first id below max_size that holds e, else -1. *)
ga_get_entity_id(pop, e) ==
  LET S == {i \in 0..(pop.max_size-1) : pop.entity_array[i] = e}
  IN IF S = {} THEN -1 ELSE Min(S)

----------------------------------------------------------------------------
(* Entity allocation. *)

(* An entity set up with a fitness of 0 instead of GA_MIN_FITNESS. *)
ga_entity_setup_scored(w, p, joe) ==
  LET pop == w.pops[p]
  IN IF pop.cb["chromosome_constructor"] = NULLFN
     THEN Fail(w, "die")
     ELSE [w EXCEPT !.ents[joe] = [alloc |-> TRUE,
                                   chromosome |-> chromosome_constructor(pop),
                                   data |-> NoData,
                                   fitness |-> 0],
                    !.ctor = @ + 1]

(* ga_entity_setup *)
ga_entity_setup(w, p, joe) ==
  LET pop == w.pops[p]
  IN IF pop.cb["chromosome_constructor"] = NULLFN
     THEN Fail(w, "die")
     ELSE [w EXCEPT !.ents[joe] = [alloc |-> TRUE,
                                   chromosome |-> chromosome_constructor(pop),
                                   data |-> NoData,
                                   fitness |-> GA_MIN_FITNESS],
                    !.ctor = @ + 1]

(* A pool growth that moves the contents of the id index up by one slot. *)
GrowPool_moved(pop) ==
  IF pop.max_size = pop.size + 1
  THEN LET new_max_size == (pop.max_size * 3) \div 2
       IN [pop EXCEPT
             !.entity_array = [i \in 0..(new_max_size-1) |->
                                 IF i > 0 /\ i <= pop.max_size
                                 THEN pop.entity_array[i-1] ELSE NULL],
             !.entity_iarray = [i \in 0..(new_max_size-1) |->
                                 IF i < pop.max_size THEN pop.entity_iarray[i] ELSE NULL],
             !.max_size = new_max_size,
             !.free_index = new_max_size - 1]
  ELSE pop

(* The pool after the "do we have room" branch of ga_get_free_entity. *)
GrowPool(pop) ==
  IF pop.max_size = pop.size + 1
  THEN LET new_max_size == (pop.max_size * 3) \div 2
       IN [pop EXCEPT
             !.entity_array = [i \in 0..(new_max_size-1) |->
                                 IF i < pop.max_size THEN pop.entity_array[i] ELSE NULL],
             !.entity_iarray = [i \in 0..(new_max_size-1) |->
                                 IF i < pop.max_size THEN pop.entity_iarray[i] ELSE NULL],
             !.max_size = new_max_size,
             !.free_index = new_max_size - 1]
  ELSE pop

(* while (entity_array[free_index]!=NULL) { if (free_index==0)             *)
(*   free_index=max_size; free_index--; }   (some slot is empty)           *)
RECURSIVE ScanFree(_, _)
ScanFree(pop, idx) ==
  IF pop.entity_array[idx] = NULL THEN idx
  ELSE ScanFree(pop, (IF idx = 0 THEN pop.max_size ELSE idx) - 1)

(* ga_get_free_entity; w.ret is the entity returned. *)
ga_get_free_entity(w, p) ==
  LET pop == GrowPool(w.pops[p])
  IN IF w.err # "none" THEN w
     ELSE IF \A i \in DOMAIN pop.entity_array : pop.entity_array[i] # NULL
     THEN Fail(w, "hang")
     ELSE LET fi == ScanFree(pop, pop.free_index)
              new == mem_chunk_alloc(p, fi)
              w1 == ga_entity_setup(w, p, new)
          IN IF w1.err # "none" THEN w1
             ELSE [w1 EXCEPT
                     !.pops[p] = [pop EXCEPT
                                    !.free_index = fi,
                                    !.entity_array = [pop.entity_array EXCEPT ![fi] = new],
                                    !.entity_iarray = SetCell(pop.entity_iarray, pop.size, new),
                                    !.size = pop.size + 1],
                     !.ret = new]

----------------------------------------------------------------------------
(* Entity release. *)

(* The invocations of a hook on the items of a list, in their order. *)
HookCalls(hook, items) == [k \in 1..Len(items) |-> [hook |-> hook, data |-> items[k]]]

(* destruct_list followed by dying->data=NULL: one data_destructor call    *)
(* per non-NULL item when the destructor is defined; the list is freed.    *)
destruct_list(w, p, e) ==
  LET items == {i \in DOMAIN w.ents[e].data : w.ents[e].data[i] # NULL}
      n == IF w.pops[p].cb["data_destructor"] # NULLFN THEN Cardinality(items) ELSE 0
      destroyed == IF w.pops[p].cb["data_destructor"] # NULLFN
                   THEN HookCalls("data_destructor",
                                  SelectSeq(w.ents[e].data, LAMBDA d : d # NULL))
                   ELSE <<>>
  IN [w EXCEPT !.ents[e].data = NoData, !.ddtor = @ + n, !.hooks = @ \o destroyed]

(* if (dying->data) { destruct_list(pop, dying->data); dying->data=NULL; } *)
ClearUserData(w, p, dying) ==
  IF EntOf(w, dying).data # NoData THEN destruct_list(w, p, dying) ELSE w

(* if (dying->chromosome) pop->chromosome_destructor(pop, dying);          *)
(* calling a NULL destructor faults.                                       *)
DeallocateChromosomes(w, p, dying) ==
  IF EntOf(w, dying).chromosome = NoChromosome THEN w
  ELSE IF w.pops[p].cb["chromosome_destructor"] = NULLFN THEN Fail(w, "segv")
  ELSE [w EXCEPT !.ents[dying].chromosome = NoChromosome, !.dtor = @ + 1]

(* ga_entity_dereference_by_rank.  ub is what the undefined accesses of    *)
(* the call do: the read of entity_iarray[rank] outside the array, the use *)
(* of a freed entity, and the writes to entity_iarray[-1] and              *)
(* entity_array[-1].                                                       *)
ga_entity_dereference_by_rank(w, p, rank, ub) ==
  LET pop == w.pops[p]
      inb == rank \in DOMAIN pop.entity_iarray
      dying == IF inb THEN pop.entity_iarray[rank]
               ELSE IF ub = "null" THEN NULL ELSE Garbage
      w1 == ClearUserData(w, p, dying)
      size == pop.size - 1
      w2 == DeallocateChromosomes(w1, p, dying)
      shifted == SetCell(ShiftDown(pop.entity_iarray, rank, size), size, NULL)
      i == ga_get_entity_id(pop, dying)
      undefined == \/ ~inb
                   \/ ~IsLiveAddr(w, dying)
                   \/ (rank < 0 /\ rank < size)
                   \/ size \notin DOMAIN pop.entity_iarray
                   \/ i = -1
  IN IF w.err # "none" THEN w
     ELSE IF dying = NULL THEN Fail(w, "die")
     ELSE IF undefined /\ ub = "segv" THEN Fail(w, "segv")
     ELSE IF w2.err # "none" THEN w2
     ELSE [w2 EXCEPT
             !.pops[p] = [pop EXCEPT !.size = size,
                                     !.entity_iarray = shifted,
                                     !.entity_array = SetCell(pop.entity_array, i, NULL)],
             !.ents = mem_chunk_free(w2.ents, dying),
             !.ubn = IF undefined THEN @ + 1 ELSE @,
             !.tail = @ /\ rank = pop.size - 1]

(* ga_entity_dereference_by_id; id is within the array.  The rank of the   *)
(* dying entity is looked up after pop->size--.                            *)
ga_entity_dereference_by_id(w, p, id, ub) ==
  LET pop == w.pops[p]
      dying == pop.entity_array[id]
      w1 == ClearUserData(w, p, dying)
      size == pop.size - 1
      from == ga_get_entity_rank([pop EXCEPT !.size = size], dying)
      shifted == SetCell(ShiftDown(pop.entity_iarray, from, size), size, NULL)
      w2 == DeallocateChromosomes(w1, p, dying)
      undefined == \/ ~IsLiveAddr(w, dying)
                   \/ (from < 0 /\ from < size)
                   \/ size \notin DOMAIN pop.entity_iarray
  IN IF w.err # "none" THEN w
     ELSE IF dying = NULL THEN Fail(w, "die")
     ELSE IF undefined /\ ub = "segv" THEN Fail(w, "segv")
     ELSE IF w2.err # "none" THEN w2
     ELSE [w2 EXCEPT
             !.pops[p] = [pop EXCEPT !.size = size,
                                     !.entity_iarray = shifted,
                                     !.entity_array = [pop.entity_array EXCEPT ![id] = NULL]],
             !.ents = mem_chunk_free(w2.ents, dying),
             !.ubn = IF undefined THEN @ + 1 ELSE @]

(* ga_entity_dereference *)
ga_entity_dereference(w, p, dying, ub) ==
  ga_entity_dereference_by_rank(w, p, ga_get_entity_rank(w.pops[p], dying), ub)

(* A cull that releases the head of the rank index instead of its tail. *)
RECURSIVE ga_genocide_head(_, _, _, _)
ga_genocide_head(w, p, target_size, ub) ==
  IF w.err # "none" THEN w
  ELSE IF w.pops[p].size > target_size
  THEN ga_genocide_head(ga_entity_dereference_by_rank(w, p, 0, ub), p, target_size, ub)
  ELSE w

(* ga_genocide: while (pop->size>target_size)                              *)
(*                ga_entity_dereference_by_rank(pop, pop->size-1);         *)
RECURSIVE ga_genocide(_, _, _, _)
ga_genocide(w, p, target_size, ub) ==
  IF w.err # "none" THEN w
  ELSE IF w.pops[p].size > target_size
  THEN ga_genocide(ga_entity_dereference_by_rank(w, p, w.pops[p].size - 1, ub),
                   p, target_size, ub)
  ELSE w

----------------------------------------------------------------------------
(* The population table (table_util, outside ga_core.c). *)

NumTableIds == NumPopAddrs

(* table_new *)
table_new == [alloc |-> TRUE, data |-> [i \in 0..(NumTableIds-1) |-> NULL]]

UnusedIds(table) == IF table.alloc THEN {i \in DOMAIN table.data : table.data[i] = NULL}
                    ELSE 0..(NumTableIds-1)

(* table_add: stores data under the unused index the table picks (index). *)
table_add(table, data, index) == [table EXCEPT !.data[index] = data]

(* The indices table_add picks from: the lowest and the highest unused. *)
TablePicks(table) ==
  LET S == UnusedIds(table)
  IN IF S = {} THEN {} ELSE {Min(S), CHOOSE x \in S : \A y \in S : y <= x}

(* table_count_items *)
table_count_items(table) == Cardinality({i \in DOMAIN table.data : table.data[i] # NULL})

(* table_get_data: the entry at an index, NULL for an unused index. *)
table_get_data(table, index) ==
  IF index \in DOMAIN table.data THEN table.data[index] ELSE NULL

(* table_lookup_index: the index that holds data, else TABLE_ERROR_INDEX. *)
table_lookup_index(table, data) ==
  LET S == {i \in DOMAIN table.data : table.data[i] = data}
  IN IF S = {} \/ data = NULL THEN TABLE_ERROR_INDEX ELSE Min(S)

(* table_remove_index: empties an index; the entry it held is what         *)
(* table_get_data gave before.                                             *)
table_remove_index(table, index) ==
  IF index \in DOMAIN table.data THEN [table EXCEPT !.data[index] = NULL] ELSE table

(* table_remove_data: empties the index that holds data, if there is one;  *)
(* the index it returns is what table_lookup_index gave before.            *)
table_remove_data(table, data) ==
  table_remove_index(table, table_lookup_index(table, data))

----------------------------------------------------------------------------
(* Population constructors. *)

FreePopAddrs(ps) == {a \in PopAddrs : ~ps[a].alloc}

(* s_malloc(sizeof(population)): an address that holds no population. *)
s_malloc(ps) == Min(FreePopAddrs(ps))

(* A population that is not entered into the table. *)
AddToTable_dropped(table, newpop, pop_id) ==
  IF ~table.alloc THEN table_new ELSE table

(* THREAD_LOCK; if (!pop_table) pop_table=table_new();                     *)
(* pop_id = table_add(pop_table, newpop); THREAD_UNLOCK                    *)
AddToTable(table, newpop, pop_id) ==
  table_add(IF ~table.alloc THEN table_new ELSE table, newpop, pop_id)

(* ga_population_new; pop_id is the index table_add hands out. *)
ga_population_new(w, stable_size, num_chromosome, len_chromosome, pop_id) ==
  LET newpop == s_malloc(w.pops)
      max_size == stable_size * 4
  IN [w EXCEPT
        !.pops[newpop] =
           [alloc |-> TRUE,
            size |-> 0,
            stable_size |-> stable_size,
            max_size |-> max_size,
            orig_size |-> 0,
            num_chromosomes |-> num_chromosome,
            len_chromosomes |-> len_chromosome,
            data |-> NULL,
            free_index |-> max_size - 1,
            island |-> -1,
            generation |-> 0,
            crossover_ratio |-> RATIO_ONE,
            mutation_ratio |-> RATIO_ONE,
            migration_ratio |-> RATIO_ONE,
            scheme |-> "GA_SCHEME_DARWIN",
            elitism |-> "GA_ELITISM_UNKNOWN",
            entity_array |-> NullArray(max_size),
            entity_iarray |-> NullArray(max_size),
            cb |-> [s \in Slots |-> NULLFN]],
        !.table = AddToTable(w.table, newpop, pop_id),
        !.ret = newpop]

(* ga_population_clone_empty.  scheme, elitism, island and generation are  *)
(* not assigned: they keep what s_malloc's memory held (junk).             *)
ga_population_clone_empty(w, p, pop_id, junk) ==
  LET pop == w.pops[p]
      newpop == s_malloc(w.pops)
  IN IF p = NULL THEN Fail(w, "die")
     ELSE [w EXCEPT
        !.pops[newpop] =
           [alloc |-> TRUE,
            size |-> 0,
            stable_size |-> pop.stable_size,
            max_size |-> pop.max_size,
            orig_size |-> 0,
            num_chromosomes |-> pop.num_chromosomes,
            len_chromosomes |-> pop.len_chromosomes,
            data |-> pop.data,
            free_index |-> pop.max_size - 1,
            island |-> junk.island,
            generation |-> junk.generation,
            crossover_ratio |-> pop.crossover_ratio,
            mutation_ratio |-> pop.mutation_ratio,
            migration_ratio |-> pop.migration_ratio,
            scheme |-> junk.scheme,
            elitism |-> junk.elitism,
            entity_array |-> NullArray(pop.max_size),
            entity_iarray |-> NullArray(pop.max_size),
            cb |-> [s \in Slots |-> pop.cb[s]]],
        !.table = AddToTable(w.table, newpop, pop_id),
        !.ret = newpop]

----------------------------------------------------------------------------
(* Entity copy. *)

(* ga_copy_data: appends chromosome's phenome item of src (or NULL) to     *)
(* dest->data; a shared item is retained through data_ref_incrementor.     *)
ga_copy_data(w, p, dest, src, chromosome) ==
  LET sd == w.ents[src].data
      tmpdata == IF chromosome \in DOMAIN sd THEN sd[chromosome] ELSE NULL
  IN IF tmpdata = NULL
     THEN [w EXCEPT !.ents[dest].data = Append(@, NULL)]
     ELSE IF w.pops[p].cb["data_ref_incrementor"] = NULLFN THEN Fail(w, "segv")
     ELSE [w EXCEPT !.ents[dest].data = Append(@, tmpdata), !.incref = @ + 1,
                    !.hooks = @ \o HookCalls("data_ref_incrementor", <<tmpdata>>)]

(* ga_copy_chromosome: pop->chromosome_replicate(pop, src, dest, i) copies *)
(* the alleles of chromosome i.                                            *)
ga_copy_chromosome(w, p, dest, src, chromosome) ==
  IF w.pops[p].cb["chromosome_replicate"] = NULLFN
     \/ chromosome \notin DOMAIN w.ents[src].chromosome
     \/ chromosome \notin DOMAIN w.ents[dest].chromosome
  THEN Fail(w, "segv")
  ELSE [w EXCEPT !.ents[dest].chromosome[chromosome] = w.ents[src].chromosome[chromosome]]

(* for (i=0; i<pop->num_chromosomes; i++) { ga_copy_data; ga_copy_chromosome } *)
RECURSIVE CopyChromosomesFrom(_, _, _, _, _)
CopyChromosomesFrom(w, p, dest, src, i) ==
  IF w.err # "none" \/ i > w.pops[p].num_chromosomes THEN w
  ELSE LET w1 == ga_copy_data(w, p, dest, src, i)
       IN CopyChromosomesFrom(IF w1.err # "none" THEN w1
                              ELSE ga_copy_chromosome(w1, p, dest, src, i),
                              p, dest, src, i + 1)

(* ga_entity_copy_all_chromosomes *)
ga_entity_copy_all_chromosomes(w, p, dest, src) ==
  IF w.err # "none" THEN w
  ELSE IF dest = NULL \/ src = NULL THEN Fail(w, "die")
  ELSE IF w.ents[dest].data # NoData THEN Fail(w, "die")
  ELSE CopyChromosomesFrom(w, p, dest, src, 1)

(* A copy that leaves the fitness of dest as it was. *)
ga_entity_copy_unscored(w, p, dest, src) ==
  ga_entity_copy_all_chromosomes(w, p, dest, src)

(* ga_entity_copy *)
ga_entity_copy(w, p, dest, src) ==
  LET w1 == ga_entity_copy_all_chromosomes(w, p, dest, src)
  IN IF w1.err # "none" THEN w1
     ELSE [w1 EXCEPT !.ents[dest].fitness = w1.ents[src].fitness]

(* ga_entity_clone *)
ga_entity_clone(w, p, parent) ==
  LET w0 == ga_get_free_entity(w, p)
      dolly == w0.ret
      w1 == ga_entity_copy_all_chromosomes(w0, p, dolly, parent)
  IN IF w0.err # "none" THEN w0
     ELSE IF w1.err # "none" THEN w1
     ELSE [w1 EXCEPT !.ents[dolly].fitness = w1.ents[parent].fitness, !.ret = dolly]

(* for (i=0; i<pop->size; i++) { newentity = ga_get_free_entity(newpop);   *)
(*   ga_entity_copy(newpop, newentity, pop->entity_iarray[i]); }           *)
RECURSIVE CloneEntitiesFrom(_, _, _, _)
CloneEntitiesFrom(w, p, newpop, i) ==
  IF w.err # "none" \/ i >= w.pops[p].size THEN w
  ELSE LET w1 == ga_get_free_entity(w, newpop)
       IN CloneEntitiesFrom(IF w1.err # "none" THEN w1
                            ELSE ga_entity_copy(w1, newpop, w1.ret,
                                                w1.pops[p].entity_iarray[i]),
                            p, newpop, i + 1)

(* ga_population_clone *)
ga_population_clone(w, p, pop_id, junk) ==
  LET w0 == ga_population_clone_empty(w, p, pop_id, junk)
      newpop == w0.ret
      w1 == CloneEntitiesFrom(w0, p, newpop, 0)
  IN IF w0.err # "none" THEN w0
     ELSE IF w1.err # "none" THEN w1
     ELSE [w1 EXCEPT !.ret = newpop]

----------------------------------------------------------------------------
(* Configuration and entity contents. *)

(* The callback slots ga_genesis_char assigns after ga_population_new: the *)
(* caller's functions and the char chromosome handlers.                    *)
GenesisCallbacks(user) ==
  [s \in Slots |->
     CASE s = "chromosome_constructor" -> "ga_chromosome_char_allocate"
       [] s = "chromosome_destructor" -> "ga_chromosome_char_deallocate"
       [] s = "chromosome_replicate" -> "ga_chromosome_char_replicate"
       [] s = "chromosome_to_bytes" -> "ga_chromosome_char_to_bytes"
       [] s = "chromosome_from_bytes" -> "ga_chromosome_char_from_bytes"
       [] s = "chromosome_to_string" -> "ga_chromosome_char_to_staticstring"
       [] OTHER -> user[s]]

(* The arguments of the ga_genesis_char call in struggle3.c. *)
StruggleCallbacks ==
  [s \in Slots |->
     CASE s = "generation_hook" -> "struggle_generation_hook"
       [] s = "evaluate" -> "struggle_score"
       [] s = "seed" -> "ga_seed_printable_random"
       [] s = "adapt" -> "struggle_adaptation"
       [] s = "select_one" -> "ga_select_one_sus"
       [] s = "select_two" -> "ga_select_two_sus"
       [] s = "mutate" -> "ga_mutate_printable_singlepoint_drift"
       [] s = "crossover" -> "ga_crossover_char_allele_mixing"
       [] OTHER -> NULLFN]

(* ga_population_set_parameters *)
ga_population_set_parameters(w, p, scheme, elitism, crossover, mutation, migration) ==
  IF p = NULL THEN Fail(w, "die")
  ELSE [w EXCEPT !.pops[p].scheme = scheme,
                 !.pops[p].elitism = elitism,
                 !.pops[p].crossover_ratio = crossover,
                 !.pops[p].mutation_ratio = mutation,
                 !.pops[p].migration_ratio = migration]

(* ga_population_set_data *)
ga_population_set_data(w, p, data) ==
  IF p = NULL THEN w ELSE [w EXCEPT !.pops[p].data = data]

(* ga_entity_set_fitness *)
ga_entity_set_fitness(w, e, fitness) ==
  IF e = NULL THEN w ELSE [w EXCEPT !.ents[e].fitness = fitness]

(* What the random number generator can hand to one seeding. *)
Draws == {0, 1}

(* pop->seed(pop, adam).  ga_seed_printable_random draws every allele of   *)
(* adam at random (the alleles of one draw differ by position) and returns *)
(* TRUE; user_seed_false is a seed function of a caller that gives up: it  *)
(* leaves adam as it is and returns FALSE.                                 *)
pop_seed(w, p, adam, draw) ==
  LET pop == w.pops[p]
  IN IF pop.cb["seed"] = "user_seed_false"
     THEN [w EXCEPT !.seeds = Append(@, [ent |-> adam, ok |-> C_FALSE]), !.ret = C_FALSE]
     ELSE [w EXCEPT !.ents[adam].chromosome =
             [c \in 1..pop.num_chromosomes |->
                [a \in 1..pop.len_chromosomes |->
                   draw + 2 * ((c - 1) * pop.len_chromosomes + (a - 1))]],
                    !.seeds = Append(@, [ent |-> adam, ok |-> C_TRUE]),
                    !.ret = C_TRUE]

(* ga_entity_seed *)
ga_entity_seed(w, p, adam, draw) ==
  IF p = NULL THEN Fail(w, "die")
  ELSE IF w.pops[p].cb["seed"] = NULLFN THEN Fail(w, "die")
  ELSE pop_seed(w, p, adam, draw)

(* A seeding loop that hands the entity of rank 0 to every invocation. *)
RECURSIVE SeedEntitiesFrom_first(_, _, _, _)
SeedEntitiesFrom_first(w, p, i, draw) ==
  IF w.err # "none" \/ i >= w.pops[p].stable_size THEN w
  ELSE LET w1 == ga_get_free_entity(w, p)
       IN SeedEntitiesFrom_first(IF w1.err # "none" THEN w1
                                 ELSE pop_seed(w1, p, w1.pops[p].entity_iarray[0], draw),
                                 p, i + 1, draw)

(* for (i=0; i<pop->stable_size; i++)                                      *)
(*   { adam = ga_get_free_entity(pop); pop->seed(pop, adam); }             *)
RECURSIVE SeedEntitiesFrom(_, _, _, _)
SeedEntitiesFrom(w, p, i, draw) ==
  IF w.err # "none" \/ i >= w.pops[p].stable_size THEN w
  ELSE LET w1 == ga_get_free_entity(w, p)
       IN SeedEntitiesFrom(IF w1.err # "none" THEN w1 ELSE pop_seed(w1, p, w1.ret, draw),
                           p, i + 1, draw)

(* ga_population_seed: the loop, and then "return TRUE". *)
ga_population_seed(w, p, draw) ==
  IF p = NULL THEN Fail(w, "die")
  ELSE IF w.pops[p].cb["seed"] = NULLFN THEN Fail(w, "die")
  ELSE [SeedEntitiesFrom(w, p, 0, draw) EXCEPT !.ret = C_TRUE]

(* A caller of ga_genesis_char that passes no seed function. *)
NoSeedCallbacks == [StruggleCallbacks EXCEPT !["seed"] = NULLFN]

(* ga_genesis_char, with the population made by ga_population_new of       *)
(* ga_core.c (stable_size, num_chromosome, len_chromosome): the callbacks  *)
(* are assigned and, when a seed function is given, the population is      *)
(* seeded.  w.ret is the population.                                       *)
ga_genesis_char(w, population_size, num_chromo, len_chromo, user, pop_id, draw) ==
  LET w0 == ga_population_new(w, population_size, num_chromo, len_chromo, pop_id)
      pop == w0.ret
      w1 == [w0 EXCEPT !.pops[pop].cb = GenesisCallbacks(user)]
      w2 == ga_population_seed(w1, pop, draw)
  IN IF user["seed"] = NULLFN THEN w1
     ELSE IF w2.err # "none" THEN w2
     ELSE [w2 EXCEPT !.ret = pop]

----------------------------------------------------------------------------
(* The population table: queries, removal and re-insertion. *)

(* ga_get_num_populations *)
ga_get_num_populations(w) ==
  [w EXCEPT !.ret = IF w.table.alloc THEN table_count_items(w.table) ELSE -1]

(* ga_get_population_from_id *)
ga_get_population_from_id(w, id) ==
  [w EXCEPT !.ret = IF w.table.alloc THEN table_get_data(w.table, id) ELSE NULL]

(* A reverse lookup that answers with the lowest index in use. *)
ga_get_population_id_lowest(w, pop) ==
  [w EXCEPT !.ret = IF w.table.alloc /\ pop # NULL
                    THEN Min((DOMAIN w.table.data) \ UnusedIds(w.table))
                    ELSE TABLE_ERROR_INDEX]

(* ga_get_population_id *)
ga_get_population_id(w, pop) ==
  [w EXCEPT !.ret = IF w.table.alloc /\ pop # NULL
                    THEN table_lookup_index(w.table, pop)
                    ELSE TABLE_ERROR_INDEX]

(* An emptied table that is kept. *)
DestroyIfEmpty_kept(table) == table

(* if (table_count_items(pop_table) < 1)                                   *)
(*   { table_destroy(pop_table); pop_table=NULL; }                         *)
DestroyIfEmpty(table) == IF table_count_items(table) < 1 THEN NoTable ELSE table

(* ga_transcend; w.ret is the population that was removed. *)
ga_transcend(w, id) ==
  IF w.table.alloc
  THEN [w EXCEPT !.table = DestroyIfEmpty(table_remove_index(w.table, id)),
                 !.ret = table_get_data(w.table, id)]
  ELSE [w EXCEPT !.ret = NULL]

(* ga_resurect; index is the index table_add hands out, w.ret the id. *)
ga_resurect(w, pop, index) ==
  IF pop = NULL THEN Fail(w, "die")
  ELSE IF w.table.alloc
  THEN [w EXCEPT !.table = table_add(w.table, pop, index), !.ret = index]
  ELSE [w EXCEPT !.ret = TABLE_ERROR_INDEX]

(* mem_chunk_destroy(extinct->entity_chunk) *)
mem_chunk_destroy(es, p) ==
  [e \in DOMAIN es |-> IF e \in {mem_chunk_alloc(p, slot) : slot \in 0..(MaxSlots-1)}
                       THEN NoEntity ELSE es[e]]

(* An extinction that culls before it looks at what the table answered. *)
ga_extinction_culled(w, extinct, ub) ==
  IF extinct = NULL THEN Fail(w, "die")
  ELSE LET id == IF w.table.alloc THEN table_lookup_index(w.table, extinct)
                 ELSE TABLE_ERROR_INDEX
           w0 == IF w.table.alloc
                 THEN [w EXCEPT !.table = DestroyIfEmpty(table_remove_data(w.table, extinct))]
                 ELSE w
           w1 == ga_genocide(w0, extinct, 0, ub)
       IN IF w1.err # "none" THEN w1
          ELSE IF id = TABLE_ERROR_INDEX THEN Fail(w1, "die")
          ELSE [w1 EXCEPT !.pops[extinct] = NoPop,
                          !.ents = mem_chunk_destroy(w1.ents, extinct),
                          !.ret = C_TRUE]

(* ga_extinction *)
ga_extinction(w, extinct, ub) ==
  IF extinct = NULL THEN Fail(w, "die")
  ELSE LET id == IF w.table.alloc THEN table_lookup_index(w.table, extinct)
                 ELSE TABLE_ERROR_INDEX
           w0 == IF w.table.alloc
                 THEN [w EXCEPT !.table = DestroyIfEmpty(table_remove_data(w.table, extinct))]
                 ELSE w
           w1 == ga_genocide(w0, extinct, 0, ub)
       IN IF id = TABLE_ERROR_INDEX THEN Fail(w0, "die")
          ELSE IF w1.err # "none" THEN w1
          ELSE [w1 EXCEPT !.pops[extinct] = NoPop,
                          !.ents = mem_chunk_destroy(w1.ents, extinct),
                          !.ret = C_TRUE]

----------------------------------------------------------------------------
(* Snapshots: a population or an entity written to a file and read back.   *)
(* The file is the sequence of the items written, in the order of the      *)
(* fwrite calls; the k-th fread gets the k-th item.                        *)

(* The function lookup table; lookup[id+1] is entry id of the C array. *)
lookup ==
  <<NULLFN,
    "ga_select_one_random", "ga_select_two_random", "ga_select_one_every",
    "ga_select_two_every", "ga_select_one_randomrank",
    "ga_select_two_randomrank", "ga_select_one_bestof2",
    "ga_select_two_bestof2", "ga_select_one_roulette",
    "ga_select_two_roulette", "ga_select_one_roulette_rebased",
    "ga_select_two_roulette_rebased", "ga_select_one_sus",
    "ga_select_two_sus", "ga_crossover_integer_singlepoints",
    "ga_crossover_integer_doublepoints", "ga_crossover_integer_mixing",
    "ga_crossover_integer_allele_mixing",
    "ga_crossover_boolean_singlepoints",
    "ga_crossover_boolean_doublepoints", "ga_crossover_boolean_mixing",
    "ga_crossover_boolean_allele_mixing", "ga_crossover_char_mixing",
    "ga_crossover_char_allele_mixing", "ga_crossover_double_mixing",
    "ga_crossover_double_allele_mixing", "ga_crossover_char_singlepoints",
    "ga_crossover_char_doublepoints",
    "ga_crossover_bitstring_singlepoints",
    "ga_crossover_bitstring_doublepoints", "ga_crossover_bitstring_mixing",
    "ga_crossover_bitstring_allele_mixing",
    "ga_mutate_integer_singlepoint_drift",
    "ga_mutate_integer_singlepoint_randomize",
    "ga_mutate_integer_multipoint", "ga_mutate_integer_allpoint",
    "ga_mutate_boolean_singlepoint", "ga_mutate_boolean_multipoint",
    "ga_mutate_char_singlepoint_drift",
    "ga_mutate_char_singlepoint_randomize", "ga_mutate_char_multipoint",
    "ga_mutate_printable_singlepoint_drift",
    "ga_mutate_printable_singlepoint_randomize",
    "ga_mutate_printable_multipoint", "ga_mutate_bitstring_singlepoint",
    "ga_mutate_double_singlepoint_randomize",
    "ga_mutate_double_singlepoint_drift", "ga_seed_boolean_random",
    "ga_seed_integer_random", "ga_seed_integer_zero",
    "ga_seed_double_random", "ga_seed_double_zero", "ga_seed_char_random",
    "ga_seed_printable_random", "ga_seed_bitstring_random",
    "ga_replace_by_fitness", "ga_chromosome_integer_allocate",
    "ga_chromosome_integer_deallocate", "ga_chromosome_integer_replicate",
    "ga_chromosome_integer_to_bytes", "ga_chromosome_integer_from_bytes",
    "ga_chromosome_integer_to_string", "ga_chromosome_boolean_allocate",
    "ga_chromosome_boolean_deallocate", "ga_chromosome_boolean_replicate",
    "ga_chromosome_boolean_to_bytes", "ga_chromosome_boolean_from_bytes",
    "ga_chromosome_boolean_to_string", "ga_chromosome_double_allocate",
    "ga_chromosome_double_deallocate", "ga_chromosome_double_replicate",
    "ga_chromosome_double_to_bytes", "ga_chromosome_double_from_bytes",
    "ga_chromosome_double_to_string", "ga_chromosome_char_allocate",
    "ga_chromosome_char_deallocate", "ga_chromosome_char_replicate",
    "ga_chromosome_char_to_bytes", "ga_chromosome_char_from_bytes",
    "ga_chromosome_char_to_string", "ga_chromosome_bitstring_allocate",
    "ga_chromosome_bitstring_deallocate",
    "ga_chromosome_bitstring_replicate",
    "ga_chromosome_bitstring_to_bytes",
    "ga_chromosome_bitstring_from_bytes",
    "ga_chromosome_bitstring_to_string">>

(* A lookup that reports a function missing from the table as NULL. *)
ga_funclookup_ptr_to_id_null(func) ==
  LET S == {id \in 1..(Len(lookup)-1) : lookup[id+1] = func}
  IN IF S = {} THEN 0 ELSE Min(S)

(* ga_funclookup_ptr_to_id: 0 for NULL, the index in the table, else -1. *)
ga_funclookup_ptr_to_id(func) ==
  IF func = NULLFN THEN 0
  ELSE LET S == {id \in 1..(Len(lookup)-1) : lookup[id+1] = func}
       IN IF S = {} THEN -1 ELSE Min(S)

(* ga_funclookup_id_to_ptr *)
ga_funclookup_id_to_ptr(id) == IF id < 0 THEN NULLFN ELSE lookup[id+1]

(* The callbacks in the order of the id[18] array. *)
HookOrder ==
  <<"generation_hook", "iteration_hook", "data_destructor", "data_ref_incrementor",
    "chromosome_constructor", "chromosome_destructor", "chromosome_replicate",
    "chromosome_to_bytes", "chromosome_from_bytes", "chromosome_to_string",
    "evaluate", "seed", "adapt", "select_one", "select_two", "mutate", "crossover",
    "replace">>

(* The format tags, and the 64 characters of VERSION_STRING and            *)
(* BUILD_DATE_STRING of the build that writes.                             *)
FormatPopulation002 == "FORMAT: GAUL POPULATION 002"
FormatPopulation001 == "FORMAT: GAUL POPULATION 001"
FormatEntity001 == "FORMAT: GAUL ENTITY 001"
VersionBlock == "VERSION_STRING BUILD_DATE_STRING"

(* A char of a chromosome as the byte of the file, and back. *)
CharToByte(c) == c % 256
ByteToChar(b) == IF b > 127 THEN b - 256 ELSE b

(* pop->chromosome_to_bytes (ga_chromosome_char_to_bytes): the chromosomes *)
(* of the entity one after the other.                                      *)
chromosome_to_bytes(pop, joe) ==
  [k \in 1..(pop.num_chromosomes * pop.len_chromosomes) |->
     CharToByte(joe.chromosome[((k - 1) \div pop.len_chromosomes) + 1]
                              [((k - 1) % pop.len_chromosomes) + 1])]

(* pop->chromosome_from_bytes (ga_chromosome_char_from_bytes) *)
chromosome_from_bytes(pop, bytes) ==
  [c \in 1..pop.num_chromosomes |->
     [a \in 1..pop.len_chromosomes |->
        ByteToChar(bytes[(c - 1) * pop.len_chromosomes + a])]]

(* fwrite of one item. *)
fwrite(w, item) == [w EXCEPT !.file = Append(@, item)]

(* fread of item k into a variable that held old: at the end of the file   *)
(* nothing is read and the variable keeps what it held.                    *)
fread(w, k, old) == IF k \in 1..Len(w.file) THEN w.file[k] ELSE old

(* gaul_write_entity *)
gaul_write_entity(w, p, entity) ==
  LET pop == w.pops[p]
      buffer == chromosome_to_bytes(pop, w.ents[entity])
  IN IF w.err # "none" THEN w
     ELSE IF pop.cb["chromosome_to_bytes"] = NULLFN THEN Fail(w, "segv")
     ELSE fwrite(fwrite(fwrite(w, w.ents[entity].fitness), Len(buffer)), buffer)

(* for (i=0; i<pop->size; i++) gaul_write_entity(fp, pop, pop->entity_iarray[i]); *)
RECURSIVE WriteEntitiesFrom(_, _, _)
WriteEntitiesFrom(w, p, i) ==
  IF w.err # "none" \/ i >= w.pops[p].size THEN w
  ELSE WriteEntitiesFrom(gaul_write_entity(w, p, w.pops[p].entity_iarray[i]), p, i + 1)

(* ga_population_write *)
ga_population_write(w, p) ==
  IF p = NULL THEN Fail(w, "die")
  ELSE LET pop == w.pops[p]
           id == [i \in 1..18 |->
                    IF HookOrder[i] \in {"data_destructor", "data_ref_incrementor"}
                    THEN (IF pop.cb[HookOrder[i]] # NULLFN THEN -1 ELSE 0)
                    ELSE ga_funclookup_ptr_to_id(pop.cb[HookOrder[i]])]
           head == <<FormatPopulation002, VersionBlock,
                     pop.size, pop.stable_size, pop.num_chromosomes, pop.len_chromosomes,
                     pop.crossover_ratio, pop.mutation_ratio, pop.migration_ratio,
                     pop.scheme, pop.elitism, pop.island, id>>
           w1 == WriteEntitiesFrom([w EXCEPT !.file = head], p, 0)
       IN IF w1.err # "none" THEN w1
          ELSE [fwrite(w1, "END") EXCEPT !.ret = C_TRUE]

(* An entity reader that leaves the fitness in the file. *)
gaul_read_entity_unscored(w, p, k) ==
  LET w1 == ga_get_free_entity(w, p)
      entity == w1.ret
      buffer == fread(w, k + 2, <<>>)
  IN IF w1.err # "none" THEN w1
     ELSE IF w1.pops[p].cb["chromosome_from_bytes"] = NULLFN THEN Fail(w1, "segv")
     ELSE [w1 EXCEPT !.ents[entity].chromosome = chromosome_from_bytes(w1.pops[p], buffer)]

(* gaul_read_entity: the entity record starts at item k. *)
gaul_read_entity(w, p, k) ==
  LET w1 == ga_get_free_entity(w, p)
      entity == w1.ret
      buffer == fread(w, k + 2, <<>>)
  IN IF w1.err # "none" THEN w1
     ELSE IF w1.pops[p].cb["chromosome_from_bytes"] = NULLFN THEN Fail(w1, "segv")
     ELSE [w1 EXCEPT !.ents[entity].fitness = fread(w, k, @),
                     !.ents[entity].chromosome = chromosome_from_bytes(w1.pops[p], buffer)]

(* for (i=0; i<size; i++) gaul_read_entity(fp, pop); *)
RECURSIVE ReadEntitiesFrom(_, _, _, _, _)
ReadEntitiesFrom(w, p, k, i, size) ==
  IF w.err # "none" \/ i >= size THEN w
  ELSE ReadEntitiesFrom(gaul_read_entity(w, p, k), p, k + 3, i + 1, size)

(* What ga_population_read and ga_population_read_001 do after the format  *)
(* tag: the version block is read and ignored, the sizes are read, the     *)
(* population is made with ga_population_new, then the parameters (island  *)
(* only in format 002), the hooks, the entities and the trailer are read;  *)
(* the trailer is read into the buffer that holds the version block.       *)
ReadPopulation(w, pop_id, has_island) ==
  LET buffer == fread(w, 2, "")
      size == fread(w, 3, 0)
      w0 == ga_population_new(w, fread(w, 4, 0), fread(w, 5, 0), fread(w, 6, 0), pop_id)
      pop == w0.ret
      hooks == IF has_island THEN 13 ELSE 12
      id == fread(w, hooks, [i \in 1..18 |-> 0])
      w1 == [w0 EXCEPT
               !.pops[pop].crossover_ratio = fread(w, 7, @),
               !.pops[pop].mutation_ratio = fread(w, 8, @),
               !.pops[pop].migration_ratio = fread(w, 9, @),
               !.pops[pop].scheme = fread(w, 10, @),
               !.pops[pop].elitism = fread(w, 11, @),
               !.pops[pop].island = IF has_island THEN fread(w, 12, @) ELSE @,
               !.pops[pop].cb = [s \in Slots |->
                  ga_funclookup_id_to_ptr(id[CHOOSE i \in 1..18 : HookOrder[i] = s])]]
      w2 == ReadEntitiesFrom(w1, pop, hooks + 1, 0, size)
  IN IF w2.err # "none" THEN w2
     ELSE IF fread(w, hooks + 1 + 3 * size, buffer) # "END" THEN Fail(w2, "die")
     ELSE [w2 EXCEPT !.ret = pop]

(* ga_population_read_001 *)
ga_population_read_001(w, pop_id) ==
  IF fread(w, 1, "") # FormatPopulation001 THEN Fail(w, "die")
  ELSE ReadPopulation(w, pop_id, FALSE)

(* ga_population_read; a file that cannot be opened ends the process. *)
ga_population_read(w, pop_id) ==
  IF w.file = <<>> THEN Fail(w, "die")
  ELSE IF fread(w, 1, "") # FormatPopulation002 THEN ga_population_read_001(w, pop_id)
  ELSE ReadPopulation(w, pop_id, TRUE)

(* ga_entity_write *)
ga_entity_write(w, p, entity) ==
  IF p = NULL \/ entity = NULL THEN Fail(w, "die")
  ELSE LET w1 == gaul_write_entity([w EXCEPT !.file = <<FormatEntity001, VersionBlock>>],
                                   p, entity)
       IN IF w1.err # "none" THEN w1
          ELSE [fwrite(w1, "END") EXCEPT !.ret = C_TRUE]

(* ga_entity_read.  The file is opened with fopen(fname,"w"): it is cut to *)
(* length 0 and no fread gets anything.  format_str_in, the length and the *)
(* bytes of the entity record and the trailer buffer are then read without *)
(* having been assigned.  ub is what that gives: "null", a tag that is     *)
(* not the format tag (die); "segv", a fault in the copy of a buffer of    *)
(* unassigned length; "continue", both comparisons pass and the entity is  *)
(* returned with the fitness of ga_entity_setup and unassigned chars.      *)
ga_entity_read(w, p, ub) ==
  IF p = NULL THEN Fail(w, "die")
  ELSE LET w0 == [w EXCEPT !.file = <<>>]
           w1 == ga_get_free_entity(w0, p)
       IN IF ub = "null" THEN Fail(w0, "die")
          ELSE IF w1.err # "none" THEN w1
          ELSE IF w1.pops[p].cb["chromosome_from_bytes"] = NULLFN \/ ub = "segv"
          THEN Fail(w1, "segv")
          ELSE [w1 EXCEPT !.ubn = @ + 1]

----------------------------------------------------------------------------
(* State and actions. *)

LivePops == {p \in PopAddrs : pops[p].alloc}

(* The entities the id index of a population holds. *)
IdEntities(pop) == {pop.entity_array[i] : i \in DOMAIN pop.entity_array} \ {NULL}

(* The entities the rank index of a population holds below size. *)
RankEntities(pop) ==
  {pop.entity_iarray[r] : r \in (0..(pop.size-1)) \cap DOMAIN pop.entity_iarray} \ {NULL}

Now == [World(pops, ents, pop_table) EXCEPT !.file = file, !.mpi = mpi,
                                            !.evolution = evolution]

Call(op, p, e) == [op |-> op, pop |-> p, ent |-> e, arg |-> 0]

CallWith(op, p, e, arg) == [op |-> op, pop |-> p, ent |-> e, arg |-> arg]

(* What a call does to the memory of the process: the state it leaves and  *)
(* what it returned.  A call that ends the process leaves only the error   *)
(* behind.                                                                 *)
Effect(call, w) ==
  /\ ubs + w.ubn <= MaxUB
  /\ ubs' = ubs + w.ubn
  /\ err' = w.err
  /\ IF w.err = "none"
     THEN pops' = w.pops /\ ents' = w.ents /\ pop_table' = w.table
     ELSE UNCHANGED <<pops, ents, pop_table>>
  /\ file' = w.file
  /\ mpi' = w.mpi
  /\ evolution' = w.evolution
  /\ last' = [op |-> call.op, pop |-> call.pop, ent |-> call.ent, arg |-> call.arg,
              ret |-> IF w.err = "none" THEN w.ret ELSE NULL,
              ctor |-> w.ctor, dtor |-> w.dtor, tail |-> w.tail, seeds |-> w.seeds,
              recv |-> w.recv, evals |-> w.evals, hooks |-> w.hooks]

(* A call is made by a process that has not ended. *)
Returns(call, w) == err = "none" /\ Effect(call, w)

(* One call of the library by a process of one thread. *)
Does(call, w) == Returns(call, w) /\ UNCHANGED <<pop_table_lock, threads>>

(* The outcome ub was drawn for an undefined access the call made; a call  *)
(* that makes none has the one outcome.                                    *)
Chosen(w, ub) == ub = "continue" \/ w.ubn > 0 \/ w.err \in {"segv", "die"}

GetFreeEntity(p, limit) ==
  /\ pops[p].size < limit
  /\ GrowPool(pops[p]).max_size <= MaxSlots
  /\ Does(Call("ga_get_free_entity", p, NULL), ga_get_free_entity(Now, p))

EntityClone(p, parent, limit) ==
  /\ pops[p].size < limit
  /\ GrowPool(pops[p]).max_size <= MaxSlots
  /\ Does(Call("ga_entity_clone", p, NULL), ga_entity_clone(Now, p, parent))

DereferenceByRank(p, rank, ub) ==
  LET w == ga_entity_dereference_by_rank(Now, p, rank, ub)
  IN /\ Chosen(w, ub)
     /\ Does(Call("ga_entity_dereference_by_rank", p, pops[p].entity_iarray[rank]), w)

DereferenceById(p, id, ub) ==
  LET w == ga_entity_dereference_by_id(Now, p, id, ub)
  IN /\ Chosen(w, ub)
     /\ Does(Call("ga_entity_dereference_by_id", p, pops[p].entity_array[id]), w)

Dereference(p, dying, ub) ==
  LET w == ga_entity_dereference(Now, p, dying, ub)
  IN /\ Chosen(w, ub)
     /\ Does(Call("ga_entity_dereference", p, dying), w)

Genocide(p, target_size, ub) ==
  LET w == ga_genocide(Now, p, target_size, ub)
  IN /\ Chosen(w, ub)
     /\ Does(CallWith("ga_genocide", p, NULL, target_size), w)

----------------------------------------------------------------------------
(* The entity pool of one population set up by ga_genesis_char without a   *)
(* seed function (stable_size 1, so max_size 4): it starts empty.          *)

PoolStableSizes == {1}
NumChromo == 1
LenChromo == 2

NoPops == [a \in PopAddrs |-> NoPop]
NoEnts == [a \in EntAddrs |-> NoEntity]

InitPool ==
  /\ \E stable_size \in PoolStableSizes :
       LET w0 == ga_genesis_char(World(NoPops, NoEnts, NoTable), stable_size,
                                 NumChromo, LenChromo, NoSeedCallbacks, 0, 0)
       IN /\ pops = w0.pops
          /\ ents = w0.ents
          /\ pop_table = w0.table
  /\ err = "none"
  /\ last = NoCall
  /\ ubs = 0
  /\ pop_table_lock = 0
  /\ threads = NoThreads
  /\ file = <<>>
  /\ mpi = <<>>
  /\ evolution = NoEvolution

(* Allocation and every release operation, each release applied to a live  *)
(* entity. *)
PoolOps(limit) ==
  \E p \in LivePops :
    \/ GetFreeEntity(p, limit)
    \/ \E rank \in 0..(pops[p].size-1), ub \in UBOutcomes :
         /\ IsLiveAddr(Now, pops[p].entity_iarray[rank])
         /\ DereferenceByRank(p, rank, ub)
    \/ \E id \in DOMAIN pops[p].entity_array, ub \in UBOutcomes :
         /\ pops[p].entity_array[id] # NULL
         /\ DereferenceById(p, id, ub)
    \/ \E dying \in IdEntities(pops[p]), ub \in UBOutcomes : Dereference(p, dying, ub)
    \/ \E target_size \in 0..MaxTarget, ub \in UBOutcomes : Genocide(p, target_size, ub)

CloneOps(limit) ==
  \E p \in LivePops :
    \E parent \in IdEntities(pops[p]) : EntityClone(p, parent, limit)

(* Spec: a small pool, followed through up to MaxUB undefined accesses. *)
NextPool == PoolOps(MaxLiveUB) \/ CloneOps(MaxLiveUB)

Spec == InitPool /\ [][NextPool]_vars

(* SpecGrow: a pool that grows, followed up to its first undefined access. *)
NextGrow == ubs = 0 /\ PoolOps(MaxLive)

SpecGrow == InitPool /\ [][NextGrow]_vars

(* The entity structures of the chunk of population p. *)
ChunkAddrs(p) == {mem_chunk_alloc(p, slot) : slot \in 0..(MaxSlots-1)}

(* Callers that do not keep to live entities and sensible targets:         *)
(* ga_entity_dereference of any entity structure, live or not, and         *)
(* ga_genocide with any target from -1 up.                                 *)
MisuseOps ==
  \E p \in LivePops :
    \/ GetFreeEntity(p, MaxLiveUB)
    \/ \E rank \in 0..(pops[p].size-1), ub \in UBOutcomes :
         /\ IsLiveAddr(Now, pops[p].entity_iarray[rank])
         /\ DereferenceByRank(p, rank, ub)
    \/ \E dying \in ChunkAddrs(p), ub \in UBOutcomes : Dereference(p, dying, ub)
    \/ \E target_size \in (-1)..MaxTarget, ub \in UBOutcomes : Genocide(p, target_size, ub)

(* SpecMisuse: such callers, followed up to their first undefined access. *)
NextMisuse == ubs = 0 /\ MisuseOps

SpecMisuse == InitPool /\ [][NextMisuse]_vars

----------------------------------------------------------------------------
(* Populations and the population table. *)

\* populations alive at once
MaxPops == 2

(* The ga_population_set_parameters call of struggle3.c. *)
StruggleParameters ==
  [scheme |-> "GA_SCHEME_LAMARCK_CHILDREN", elitism |-> "GA_ELITISM_PARENTS_SURVIVE",
   crossover |-> 80, mutation |-> 5, migration |-> 0]

(* A pointer to data of the user. *)
UserData == {1}

(* What the memory s_malloc returns can hold in the fields a constructor   *)
(* does not assign: zeroes, what a population made by ga_population_new    *)
(* and freed since left there, or what an evolved population left there.   *)
Junk ==
  {[scheme |-> "GA_SCHEME_DARWIN", elitism |-> "GA_ELITISM_UNKNOWN",
    island |-> 0, generation |-> 0],
   [scheme |-> "GA_SCHEME_DARWIN", elitism |-> "GA_ELITISM_UNKNOWN",
    island |-> -1, generation |-> 0],
   [scheme |-> "GA_SCHEME_LAMARCK_CHILDREN", elitism |-> "GA_ELITISM_PARENTS_SURVIVE",
    island |-> -1, generation |-> 1]}

RoomForPopulation(stable_size) ==
  /\ Cardinality(LivePops) < MaxPops
  /\ FreePopAddrs(pops) # {}
  /\ stable_size * 4 <= MaxSlots

PopulationNew(stable_size, pop_id) ==
  /\ RoomForPopulation(stable_size)
  /\ Does(Call("ga_population_new", NULL, NULL),
          ga_population_new(Now, stable_size, NumChromo, LenChromo, pop_id))

GenesisChar(population_size, user, pop_id, draw) ==
  /\ RoomForPopulation(population_size)
  /\ Does(Call("ga_genesis_char", NULL, NULL),
          ga_genesis_char(Now, population_size, NumChromo, LenChromo, user, pop_id, draw))

SetParameters(p, params) ==
  Does(Call("ga_population_set_parameters", p, NULL),
       ga_population_set_parameters(Now, p, params.scheme, params.elitism,
                                    params.crossover, params.mutation, params.migration))

SetData(p, data) ==
  Does(Call("ga_population_set_data", p, NULL), ga_population_set_data(Now, p, data))

PopulationCloneEmpty(p, pop_id, junk) ==
  /\ RoomForPopulation(pops[p].stable_size)
  /\ Does(Call("ga_population_clone_empty", p, NULL),
          ga_population_clone_empty(Now, p, pop_id, junk))

PopulationClone(p, pop_id, junk) ==
  /\ RoomForPopulation(pops[p].stable_size)
  /\ Does(Call("ga_population_clone", p, NULL), ga_population_clone(Now, p, pop_id, junk))

EntitySeed(p, adam, draw) ==
  Does(Call("ga_entity_seed", p, NULL), ga_entity_seed(Now, p, adam, draw))

EntitySetFitness(p, e, fitness) ==
  Does(Call("ga_entity_set_fitness", p, NULL), ga_entity_set_fitness(Now, e, fitness))

InitPops ==
  /\ pops = NoPops
  /\ ents = NoEnts
  /\ pop_table = NoTable
  /\ err = "none"
  /\ last = NoCall
  /\ ubs = 0
  /\ pop_table_lock = 0
  /\ threads = NoThreads
  /\ file = <<>>
  /\ mpi = <<>>
  /\ evolution = NoEvolution

(* SpecPops: populations are made, configured and cloned empty. *)
NextPops ==
  \/ \E stable_size \in 1..MaxStable, pop_id \in TablePicks(pop_table) :
       PopulationNew(stable_size, pop_id)
  \/ \E population_size \in PoolStableSizes, pop_id \in TablePicks(pop_table), draw \in Draws :
       GenesisChar(population_size, StruggleCallbacks, pop_id, draw)
  \/ \E p \in LivePops :
       \/ SetParameters(p, StruggleParameters)
       \/ \E data \in UserData : SetData(p, data)
       \/ \E pop_id \in TablePicks(pop_table), junk \in Junk :
            PopulationCloneEmpty(p, pop_id, junk)

SpecPops == InitPops /\ [][NextPops]_vars

(* The values ga_entity_set_fitness is called with. *)
Fitnesses == {1}

\* entities of the population that is cloned
MaxCloneLive == 2

InitClone ==
  /\ \E draw \in Draws :
       LET w0 == ga_genesis_char(World(NoPops, NoEnts, NoTable), 1, NumChromo,
                                 LenChromo, StruggleCallbacks, 0, draw)
       IN /\ pops = w0.pops
          /\ ents = w0.ents
          /\ pop_table = w0.table
  /\ err = "none"
  /\ last = NoCall
  /\ ubs = 0
  /\ pop_table_lock = 0
  /\ threads = NoThreads
  /\ file = <<>>
  /\ mpi = <<>>
  /\ evolution = NoEvolution

(* SpecClone: the population of a genesis is filled, scored and thinned,   *)
(* and then cloned; a run is followed up to the clone.                     *)
NextClone ==
  \E p \in LivePops :
    /\ LivePops = {p}
    /\ \/ GetFreeEntity(p, MaxCloneLive)
       \/ \E adam \in IdEntities(pops[p]), draw \in Draws : EntitySeed(p, adam, draw)
       \/ \E e \in IdEntities(pops[p]), fitness \in Fitnesses : EntitySetFitness(p, e, fitness)
       \/ \E rank \in 0..(pops[p].size-1) : DereferenceByRank(p, rank, "continue")
       \/ \E pop_id \in TablePicks(pop_table), junk \in Junk : PopulationClone(p, pop_id, junk)

SpecClone == InitClone /\ [][NextClone]_vars

----------------------------------------------------------------------------
(* Callers of the population table. *)

GetNumPopulations ==
  Does(Call("ga_get_num_populations", NULL, NULL), ga_get_num_populations(Now))

GetPopulationFromId(id) ==
  Does(CallWith("ga_get_population_from_id", NULL, NULL, id),
       ga_get_population_from_id(Now, id))

GetPopulationId(p) ==
  Does(Call("ga_get_population_id", p, NULL), ga_get_population_id(Now, p))

Transcend(id) ==
  Does(CallWith("ga_transcend", NULL, NULL, id), ga_transcend(Now, id))

Resurect(p, index) ==
  Does(Call("ga_resurect", p, NULL), ga_resurect(Now, p, index))

Extinction(p, ub) ==
  /\ Chosen(ga_extinction(Now, p, ub), ub)
  /\ Does(Call("ga_extinction", p, NULL), ga_extinction(Now, p, ub))

(* The populations the table holds. *)
Registered ==
  IF pop_table.alloc
  THEN {pop_table.data[i] : i \in DOMAIN pop_table.data} \ {NULL}
  ELSE {}

(* The ids a caller passes: every index of the table. *)
TableIds == 0..(NumTableIds-1)

(* SpecRegistry: populations are made, cloned empty, given an entity,      *)
(* taken out of the table, put back (only populations that are not in the  *)
(* table are put back) and freed, and the table is queried.                *)
NextRegistry ==
  \/ \E pop_id \in TablePicks(pop_table) : PopulationNew(1, pop_id)
  \/ GetNumPopulations
  \/ \E id \in TableIds :
       \/ GetPopulationFromId(id)
       \/ Transcend(id)
  \/ \E p \in LivePops :
       \/ \E pop_id \in TablePicks(pop_table) : PopulationCloneEmpty(p, pop_id, CHOOSE j \in Junk : j.island = 0)
       \/ GetFreeEntity(p, 1)
       \/ GetPopulationId(p)
       \/ \E index \in TablePicks(pop_table) : p \notin Registered /\ Resurect(p, index)
       \/ Extinction(p, "continue")

SpecRegistry == InitPops /\ [][NextRegistry]_vars

----------------------------------------------------------------------------
(* Threads that call the population table. *)

(* table_get_index_all / table_get_data_all: the indices in use in         *)
(* ascending order, and the entries they hold.                             *)
table_get_index_all(table) ==
  LET used == (DOMAIN table.data) \ UnusedIds(table)
  IN [k \in 1..Cardinality(used) |->
        CHOOSE i \in used : Cardinality({j \in used : j < i}) = k - 1]

table_get_data_all(table) ==
  [k \in 1..table_count_items(table) |-> table.data[table_get_index_all(table)[k]]]

(* ga_get_all_population_ids *)
ga_get_all_population_ids(w) ==
  [w EXCEPT !.ret = IF w.table.alloc THEN table_get_index_all(w.table) ELSE <<>>]

(* ga_get_all_populations *)
ga_get_all_populations(w) ==
  [w EXCEPT !.ret = IF w.table.alloc THEN table_get_data_all(w.table) ELSE <<>>]

(* The functions of part_000 that read or write pop_table: each does so    *)
(* between THREAD_LOCK(pop_table_lock) and THREAD_UNLOCK(pop_table_lock).  *)
TableCalls ==
  {[fn |-> f, file |-> "part_000", locks |-> TRUE] :
     f \in {"ga_population_new", "ga_population_clone_empty", "ga_get_num_populations",
            "ga_get_population_from_id", "ga_get_population_id",
            "ga_get_all_population_ids", "ga_get_all_populations",
            "ga_transcend", "ga_resurect", "ga_extinction"}}

(* The four lookups of src/ga_core.c: each is one return statement that    *)
(* hands pop_table to the table function, with no THREAD_LOCK.             *)
TableCalls_ga_core ==
  {[fn |-> f, file |-> "ga_core.c", locks |-> FALSE] :
     f \in {"ga_get_population_from_id", "ga_get_population_id",
            "ga_get_all_population_ids", "ga_get_all_populations"}}

(* The lookups of src/ga_core.c; the table functions end the process when  *)
(* they are handed a NULL table.                                           *)
ga_core_lookup(w, fn, p, id) ==
  IF ~w.table.alloc THEN Fail(w, "die")
  ELSE [w EXCEPT !.ret =
          CASE fn = "ga_get_population_from_id" -> table_get_data(w.table, id)
            [] fn = "ga_get_population_id" -> table_lookup_index(w.table, p)
            [] fn = "ga_get_all_population_ids" -> table_get_index_all(w.table)
            [] fn = "ga_get_all_populations" -> table_get_data_all(w.table)]

(* ga_transcend of src/ga_core.c: one return statement that hands          *)
(* pop_table to table_remove_index, with no THREAD_LOCK and no teardown.   *)
ga_core_transcend(w, id) ==
  IF ~w.table.alloc THEN Fail(w, "die")
  ELSE [w EXCEPT !.table = table_remove_index(w.table, id),
                 !.ret = table_get_data(w.table, id)]

(* What the function a thread is in does once it reaches pop_table; index  *)
(* is the index table_add hands out.                                       *)
TableAccess(w, th, index) ==
  IF th.file = "ga_core.c"
  THEN IF th.fn = "ga_transcend" THEN ga_core_transcend(w, th.id)
       ELSE ga_core_lookup(w, th.fn, th.pop, th.id)
  ELSE CASE th.fn = "ga_population_new" ->
              ga_population_new(w, 1, NumChromo, LenChromo, index)
         [] th.fn = "ga_population_clone_empty" ->
              ga_population_clone_empty(w, th.pop, index, CHOOSE j \in Junk : j.island = 0)
         [] th.fn = "ga_get_num_populations" -> ga_get_num_populations(w)
         [] th.fn = "ga_get_population_from_id" -> ga_get_population_from_id(w, th.id)
         [] th.fn = "ga_get_population_id" -> ga_get_population_id(w, th.pop)
         [] th.fn = "ga_get_all_population_ids" -> ga_get_all_population_ids(w)
         [] th.fn = "ga_get_all_populations" -> ga_get_all_populations(w)
         [] th.fn = "ga_transcend" -> ga_transcend(w, th.id)
         [] th.fn = "ga_resurect" -> ga_resurect(w, th.pop, index)
         [] th.fn = "ga_extinction" -> ga_extinction(w, th.pop, "continue")

\* populations alive at once while threads call the table
MaxThreadPops == 2

(* The populations the calls in progress will make. *)
Pending == Cardinality({t \in Threads : threads[t].fn \in {"ga_population_new",
                                                            "ga_population_clone_empty"}})

(* A thread enters a function of the table.  A population is passed by one *)
(* thread at a time, and only a population that is not in the table is     *)
(* handed to ga_resurect.                                                  *)
ThreadCall(t, c, p, id) ==
  /\ err = "none"
  /\ threads[t].at = "idle"
  /\ c.fn \in {"ga_population_new", "ga_population_clone_empty"}
       => /\ Cardinality(LivePops) + Pending < MaxThreadPops
          /\ Cardinality(FreePopAddrs(pops)) > Pending
  /\ IF c.fn \in {"ga_population_clone_empty", "ga_get_population_id", "ga_resurect",
                  "ga_extinction"}
     THEN p \in LivePops /\ \A u \in Threads : threads[u].pop # p
     ELSE p = NULL
  /\ c.fn = "ga_resurect" => p \notin Registered
  /\ IF c.fn \in {"ga_get_population_from_id", "ga_transcend"} THEN id \in 0..(MaxThreadPops-1)
                                                                   ELSE id = 0
  /\ threads' = [threads EXCEPT ![t] = [fn |-> c.fn, file |-> c.file, pop |-> p, id |-> id,
                                         at |-> IF c.locks THEN "lock" ELSE "access"]]
  /\ UNCHANGED <<pops, ents, pop_table, err, last, ubs, pop_table_lock, file, mpi, evolution>>

(* THREAD_LOCK(pop_table_lock) *)
ThreadLock(t) ==
  /\ err = "none"
  /\ threads[t].at = "lock"
  /\ pop_table_lock = 0
  /\ pop_table_lock' = t
  /\ threads' = [threads EXCEPT ![t].at = "access"]
  /\ UNCHANGED <<pops, ents, pop_table, err, last, ubs, file, mpi, evolution>>

(* The thread reads or writes pop_table; a function without the lock       *)
(* returns from there.                                                     *)
ThreadAccess(t, index) ==
  /\ threads[t].at = "access"
  /\ Returns(CallWith(threads[t].fn, threads[t].pop, NULL, threads[t].id),
             TableAccess(Now, threads[t], index))
  /\ threads' = [threads EXCEPT ![t] = IF pop_table_lock = t THEN [@ EXCEPT !.at = "unlock"]
                                       ELSE Idle]
  /\ UNCHANGED pop_table_lock

(* THREAD_UNLOCK(pop_table_lock), and the return. *)
ThreadUnlock(t) ==
  /\ err = "none"
  /\ threads[t].at = "unlock"
  /\ pop_table_lock' = 0
  /\ threads' = [threads EXCEPT ![t] = Idle]
  /\ UNCHANGED <<pops, ents, pop_table, err, last, ubs, file, mpi, evolution>>

(* SpecThreads: the threads call the functions of the table of both files  *)
(* in any interleaving.                                                    *)
NextThreads ==
  \E t \in Threads :
    \/ \E c \in TableCalls \cup TableCalls_ga_core, p \in LivePops \cup {NULL},
          id \in TableIds : ThreadCall(t, c, p, id)
    \/ ThreadLock(t)
    \/ \E index \in {Min(UnusedIds(pop_table))} : ThreadAccess(t, index)
    \/ ThreadUnlock(t)

SpecThreads == InitPops /\ [][NextThreads]_vars

(* C14: a thread that is about to read or write pop_table holds            *)
(* pop_table_lock, no two threads are there at once, and a thread that has *)
(* returned does not hold the lock.                                        *)
C14_TableAccessUnderLock ==
  /\ \A t \in Threads : threads[t].at = "access" => pop_table_lock = t
  /\ Cardinality({t \in Threads : threads[t].at = "access"}) <= 1
  /\ \A t \in Threads : threads[t].at = "idle" => pop_table_lock # t

----------------------------------------------------------------------------
(* Callers of the snapshot functions. *)

(* Callbacks that are all NULL or in the lookup table: the char chromosome *)
(* handlers and operators of the library.                                  *)
BuiltinCallbacks ==
  [s \in Slots |->
     CASE s = "chromosome_constructor" -> "ga_chromosome_char_allocate"
       [] s = "chromosome_destructor" -> "ga_chromosome_char_deallocate"
       [] s = "chromosome_replicate" -> "ga_chromosome_char_replicate"
       [] s = "chromosome_to_bytes" -> "ga_chromosome_char_to_bytes"
       [] s = "chromosome_from_bytes" -> "ga_chromosome_char_from_bytes"
       [] s = "chromosome_to_string" -> "ga_chromosome_char_to_string"
       [] s = "seed" -> "ga_seed_printable_random"
       [] s = "select_one" -> "ga_select_one_sus"
       [] s = "select_two" -> "ga_select_two_sus"
       [] s = "mutate" -> "ga_mutate_printable_singlepoint_drift"
       [] s = "crossover" -> "ga_crossover_char_allele_mixing"
       [] OTHER -> NULLFN]

PopulationWrite(p) ==
  Does(Call("ga_population_write", p, NULL), ga_population_write(Now, p))

PopulationRead(pop_id) ==
  /\ RoomForPopulation(fread(Now, 4, 1))
  /\ Does(Call("ga_population_read", NULL, NULL), ga_population_read(Now, pop_id))

EntityWrite(p, entity) ==
  Does(Call("ga_entity_write", p, entity), ga_entity_write(Now, p, entity))

EntityRead(p, ub, limit) ==
  /\ pops[p].size < limit
  /\ Does(Call("ga_entity_read", p, NULL), ga_entity_read(Now, p, ub))

(* What can happen to a snapshot between its writing and its reading. *)
Corruptions == {"magic", "version", "trailer"}

(* The file that was just written is damaged outside the library. *)
CorruptFile(kind) ==
  /\ err = "none"
  /\ last.op \in {"ga_population_write", "ga_entity_write"}
  /\ file' = CASE kind = "magic" -> [file EXCEPT ![1] = "FORMAT: GAUL POPULATION 000"]
               [] kind = "version" -> [file EXCEPT ![2] = "another version"]
               [] kind = "trailer" -> SubSeq(file, 1, Len(file) - 1)
  /\ last' = [NoCall EXCEPT !.op = "corrupt"]
  /\ UNCHANGED <<pops, ents, pop_table, err, ubs, pop_table_lock, threads, mpi, evolution>>

(* A population of one entity made by ga_genesis_char, with the callbacks  *)
(* of struggle3.c or with callbacks of the library only.                   *)
InitSnap ==
  /\ \E draw \in Draws, cb \in {GenesisCallbacks(StruggleCallbacks), BuiltinCallbacks} :
       LET w0 == ga_genesis_char(World(NoPops, NoEnts, NoTable), 1, NumChromo,
                                 LenChromo, StruggleCallbacks, 0, draw)
       IN /\ pops = [w0.pops EXCEPT ![w0.ret].cb = cb]
          /\ ents = w0.ents
          /\ pop_table = w0.table
  /\ err = "none"
  /\ last = NoCall
  /\ ubs = 0
  /\ pop_table_lock = 0
  /\ threads = NoThreads
  /\ file = <<>>
  /\ mpi = <<>>
  /\ evolution = NoEvolution

(* SpecSnap: the population gets entities, scores and parameters, it and   *)
(* its entities are written and read back, and the file is damaged; a run  *)
(* is followed up to the reading of a population.                          *)
NextSnap ==
  \/ \E pop_id \in TablePicks(pop_table) : PopulationRead(pop_id)
  \/ \E kind \in Corruptions : CorruptFile(kind)
  \/ \E p \in LivePops :
       /\ LivePops = {p}
       /\ \/ GetFreeEntity(p, 2)
          \/ \E e \in IdEntities(pops[p]), fitness \in Fitnesses :
               EntitySetFitness(p, e, fitness)
          \/ SetParameters(p, StruggleParameters)
          \/ PopulationWrite(p)
          \/ \E e \in IdEntities(pops[p]) : EntityWrite(p, e)
          \/ \E ub \in UBOutcomes : EntityRead(p, ub, 2)

SpecSnap == InitSnap /\ [][NextSnap]_vars

----------------------------------------------------------------------------
(* Properties of the entity pool. *)

(* The number of non-empty slots of the id index. *)
IdCount(pop) ==
  Cardinality({i \in 0..(pop.max_size-1) : pop.entity_array[i] # NULL})

(* C1: in every population, after any sequence of ga_get_free_entity,      *)
(* ga_entity_clone, ga_entity_dereference, ga_entity_dereference_by_rank,  *)
(* ga_entity_dereference_by_id and ga_genocide calls, each dereference     *)
(* applied to an entity of the id index, size equals the number of         *)
(* non-empty slots of the id index.                                        *)
C1_SizeIsIdCount ==
  \A p \in LivePops : pops[p].size = IdCount(pops[p])

(* C2: after any sequence of those operations the rank index below size    *)
(* holds every entity of the id index exactly once and nothing else, and   *)
(* every rank slot from size up is empty.                                  *)
C2_RankIndexIsPermutation ==
  \A p \in LivePops :
    LET pop == pops[p]
    IN /\ \A e \in IdEntities(pop) :
            Cardinality({r \in 0..(pop.size-1) : pop.entity_iarray[r] = e}) = 1
       /\ \A r \in 0..(pop.size-1) : pop.entity_iarray[r] \in IdEntities(pop)
       /\ \A r \in pop.size..(pop.max_size-1) : pop.entity_iarray[r] = NULL

(* An entity of population p that is allocated, held by the id index and   *)
(* ranked below size.                                                      *)
Live(p, e) ==
  /\ IsLiveAddr(Now, e)
  /\ ga_get_entity_id(pops[p], e) >= 0
  /\ ga_get_entity_rank(pops[p], e) >= 0

(* C3: the id of an entity does not change while the entity is alive: it   *)
(* is the same before and after every call that leaves the entity          *)
(* allocated (a ga_get_free_entity, also one that grows the pool, a        *)
(* dereference of another entity, a ga_genocide that does not reach it).   *)
C3_IdIsStable ==
  [][\A p \in LivePops, e \in EntAddrs :
       (Live(p, e) /\ ents'[e].alloc)
         => ga_get_entity_id(pops'[p], e) = ga_get_entity_id(pops[p], e)]_vars

(* A pool that has grown holds entities allocated before the growth. *)
C3_Witness ==
  \E p \in LivePops :
    /\ last.op = "ga_get_free_entity" /\ last.pop = p
    /\ pops[p].max_size > 4 * pops[p].stable_size
    /\ pops[p].size = pops[p].max_size - 2
    /\ \E e \in IdEntities(pops[p]) : e # last.ret

DerefOps == {"ga_entity_dereference", "ga_entity_dereference_by_rank",
             "ga_entity_dereference_by_id"}

(* The result the dereference of the entity e of population p is to have. *)
Dereferenced(p, e) ==
  LET pop == pops[p]
      new == pops'[p]
      r == ga_get_entity_rank(pop, e)
      id == ga_get_entity_id(pop, e)
  IN /\ new.size = pop.size - 1
     /\ \A k \in 0..(r-1) : new.entity_iarray[k] = pop.entity_iarray[k]
     /\ \A k \in (r+1)..(pop.size-1) : new.entity_iarray[k-1] = pop.entity_iarray[k]
     /\ \A k \in 0..(new.size-1) : new.entity_iarray[k] # e
     /\ new.entity_array[id] = NULL
     /\ \A i \in 0..(pop.max_size-1) : i # id => new.entity_array[i] = pop.entity_array[i]

(* C4: for a live entity e at any rank r (first, middle or last), each of  *)
(* ga_entity_dereference, ga_entity_dereference_by_rank and                *)
(* ga_entity_dereference_by_id that returns has the same result: size is   *)
(* one less, the ranks below r are kept, the ranks above r move down by    *)
(* one in order, e is in the rank index no more, its id slot is empty and  *)
(* no other id slot changed.                                               *)
C4_DereferenceVariantsAgree ==
  [][(last'.op \in DerefOps /\ Live(last'.pop, last'.ent) /\ err' = "none")
       => Dereferenced(last'.pop, last'.ent)]_vars

(* An entity of the last rank, with another ranked below it, was released  *)
(* through its id.                                                         *)
C4_Witness ==
  /\ last.op = "ga_entity_dereference_by_id"
  /\ err = "none"
  /\ pops[last.pop].size >= 1
  /\ ubs >= 1

(* C6: ga_get_free_entity returns a new entity with fitness                *)
(* GA_MIN_FITNESS and no phenome, held by an id slot that held no entity   *)
(* before the call and by the rank slot of the old size; size is one more, *)
(* chromosome_constructor ran exactly once, and every entity that was live *)
(* has the rank and the id it had.                                         *)
C6_GetFreeEntity ==
  [][last'.op = "ga_get_free_entity" =>
       LET p == last'.pop
           pop == pops[p]
           new == pops'[p]
           e == last'.ret
       IN /\ err' = "none"
          /\ e \in EntAddrs /\ ~ents[e].alloc /\ ents'[e].alloc
          /\ ents'[e].fitness = GA_MIN_FITNESS
          /\ ents'[e].data = NoData
          /\ \E i \in 0..(new.max_size-1) :
                /\ new.entity_array[i] = e
                /\ i \in DOMAIN pop.entity_array => pop.entity_array[i] = NULL
          /\ new.entity_iarray[pop.size] = e
          /\ ga_get_entity_rank(new, e) = pop.size
          /\ new.size = pop.size + 1
          /\ last'.ctor = 1
          /\ \A o \in IdEntities(pop) :
                /\ ga_get_entity_rank(new, o) = ga_get_entity_rank(pop, o)
                /\ ga_get_entity_id(new, o) = ga_get_entity_id(pop, o)]_vars

(* ga_get_free_entity returned an entity from a pool it had to grow, in    *)
(* which other entities were live.                                         *)
C6_Witness ==
  \E p \in LivePops :
    /\ last.op = "ga_get_free_entity" /\ last.pop = p /\ err = "none"
    /\ pops[p].max_size > 4 * pops[p].stable_size
    /\ pops[p].size = pops[p].max_size - 2
    /\ pops[p].entity_iarray[pops[p].size - 1] = last.ret
    /\ pops[p].size >= 2

(* C5: ga_entity_dereference of an entity that is not in the rank index    *)
(* raises no error and leaves size, the id index and the rank index of the *)
(* population as they were.                                                *)
C5_DereferenceOfDeadIsNoOp ==
  [][(last'.op = "ga_entity_dereference"
      /\ ga_get_entity_rank(pops[last'.pop], last'.ent) = -1)
       => /\ err' = "none"
          /\ pops'[last'.pop].size = pops[last'.pop].size
          /\ pops'[last'.pop].entity_array = pops[last'.pop].entity_array
          /\ pops'[last'.pop].entity_iarray = pops[last'.pop].entity_iarray]_vars

(* C7: in every reachable state 0 <= size <= max_size, also after          *)
(* ga_genocide with any target and after allocations that grow the pool.   *)
C7_SizeWithinCapacity ==
  \A p \in LivePops : 0 <= pops[p].size /\ pops[p].size <= pops[p].max_size

----------------------------------------------------------------------------
(* Properties of the population constructors. *)

(* The population q is made by the step: it was no population before. *)
Made(q) == q \in PopAddrs /\ ~pops[q].alloc /\ pops'[q].alloc

(* Every id slot and every rank slot of pop is empty. *)
AllSlotsEmpty(pop) ==
  /\ DOMAIN pop.entity_array = 0..(pop.max_size-1)
  /\ DOMAIN pop.entity_iarray = 0..(pop.max_size-1)
  /\ \A i \in 0..(pop.max_size-1) : pop.entity_array[i] = NULL /\ pop.entity_iarray[i] = NULL

(* C8: ga_population_new returns a population with size 0, max_size =      *)
(* 4*stable_size, every id and rank slot empty, the three ratios 1.0,      *)
(* scheme Darwin, elitism unknown, every callback NULL, generation 0 and   *)
(* island -1, and the population is in the table when the call returns.    *)
C8_PopulationNew ==
  [][last'.op = "ga_population_new" =>
       /\ err' = "none"
       /\ Made(last'.ret)
       /\ LET pop == pops'[last'.ret]
          IN /\ pop.size = 0
             /\ pop.max_size = 4 * pop.stable_size
             /\ AllSlotsEmpty(pop)
             /\ pop.crossover_ratio = RATIO_ONE
             /\ pop.mutation_ratio = RATIO_ONE
             /\ pop.migration_ratio = RATIO_ONE
             /\ pop.scheme = "GA_SCHEME_DARWIN"
             /\ pop.elitism = "GA_ELITISM_UNKNOWN"
             /\ \A slot \in Slots : pop.cb[slot] = NULLFN
             /\ pop.generation = 0
             /\ pop.island = -1
       /\ pop_table'.alloc
       /\ table_lookup_index(pop_table', last'.ret) # TABLE_ERROR_INDEX]_vars

(* ga_population_new returned a population while the table held another. *)
C8_Witness ==
  /\ last.op = "ga_population_new" /\ err = "none"
  /\ pops[last.ret].alloc /\ pops[last.ret].size = 0
  /\ table_count_items(pop_table) >= 2

(* C9: ga_population_clone_empty(p) returns a population of size 0 whose   *)
(* configuration is that of p (stable_size, num_chromosomes,               *)
(* len_chromosomes, the three ratios, scheme, elitism, island, user data   *)
(* and every callback), entered in the table under another index than p;   *)
(* p and its table entry are unchanged.                                    *)
C9_CloneEmptyCopiesConfiguration ==
  [][last'.op = "ga_population_clone_empty" =>
       /\ err' = "none"
       /\ Made(last'.ret)
       /\ LET pop == pops[last'.pop]
              new == pops'[last'.ret]
          IN /\ new.size = 0
             /\ new.stable_size = pop.stable_size
             /\ new.num_chromosomes = pop.num_chromosomes
             /\ new.len_chromosomes = pop.len_chromosomes
             /\ new.crossover_ratio = pop.crossover_ratio
             /\ new.mutation_ratio = pop.mutation_ratio
             /\ new.migration_ratio = pop.migration_ratio
             /\ new.scheme = pop.scheme
             /\ new.elitism = pop.elitism
             /\ new.island = pop.island
             /\ new.data = pop.data
             /\ \A slot \in Slots : new.cb[slot] = pop.cb[slot]
       /\ table_lookup_index(pop_table', last'.ret) # TABLE_ERROR_INDEX
       /\ table_lookup_index(pop_table', last'.ret)
            # table_lookup_index(pop_table', last'.pop)
       /\ table_lookup_index(pop_table', last'.pop)
            = table_lookup_index(pop_table, last'.pop)
       /\ pops'[last'.pop] = pops[last'.pop]]_vars

(* C10: ga_population_clone(p) returns a population q of the size of p in  *)
(* which the entity at every rank has the fitness and the chromosome       *)
(* content of the entity at that rank of p; the entities, ranks and ids of *)
(* p are unchanged.                                                        *)
C10_PopulationClone ==
  [][last'.op = "ga_population_clone" =>
       /\ err' = "none"
       /\ Made(last'.ret)
       /\ LET pop == pops[last'.pop]
              new == pops'[last'.ret]
          IN /\ new.size = pop.size
             /\ \A i \in 0..(pop.size-1) :
                   /\ new.entity_iarray[i] \in ChunkAddrs(last'.ret)
                   /\ ents'[new.entity_iarray[i]].alloc
                   /\ ents'[new.entity_iarray[i]].fitness = ents[pop.entity_iarray[i]].fitness
                   /\ ents'[new.entity_iarray[i]].chromosome
                        = ents[pop.entity_iarray[i]].chromosome
       /\ pops'[last'.pop] = pops[last'.pop]
       /\ \A e \in ChunkAddrs(last'.pop) : ents'[e] = ents[e]]_vars

(* A population whose two entities differ in fitness and in chromosome     *)
(* content was cloned, and an entity of the clone has another id than the  *)
(* entity of its rank in the original.                                     *)
C10_Witness ==
  /\ last.op = "ga_population_clone" /\ err = "none"
  /\ LET pop == pops[last.pop]
         new == pops[last.ret]
     IN /\ pop.size = 2
        /\ new.size = 2
        /\ ents[pop.entity_iarray[0]].fitness # ents[pop.entity_iarray[1]].fitness
        /\ ents[pop.entity_iarray[0]].chromosome # ents[pop.entity_iarray[1]].chromosome
        /\ ents[new.entity_iarray[0]].fitness = ents[pop.entity_iarray[0]].fitness
        /\ \E i \in 0..1 : ga_get_entity_id(new, new.entity_iarray[i])
                             # ga_get_entity_id(pop, pop.entity_iarray[i])

----------------------------------------------------------------------------
(* Properties of ga_genocide. *)

(* C11: ga_genocide(p, target) with target >= 0 ends with size the         *)
(* smaller of the old size and target; the survivors are the entities of   *)
(* the ranks below the new size, with the rank and id they had; every      *)
(* entity removed was at the last rank when it was released; when the old  *)
(* size is not above target the population is unchanged.                   *)
C11_Genocide ==
  [][(last'.op = "ga_genocide" /\ last'.arg >= 0) =>
       LET p == last'.pop
           pop == pops[p]
           new == pops'[p]
           keep == IF pop.size < last'.arg THEN pop.size ELSE last'.arg
       IN /\ err' = "none"
          /\ new.size = keep
          /\ \A r \in 0..(keep-1) :
                /\ new.entity_iarray[r] = pop.entity_iarray[r]
                /\ ents'[pop.entity_iarray[r]].alloc
                /\ ga_get_entity_id(new, pop.entity_iarray[r])
                     = ga_get_entity_id(pop, pop.entity_iarray[r])
          /\ IdEntities(new) = {pop.entity_iarray[r] : r \in 0..(keep-1)}
          /\ \A r \in keep..(pop.size-1) : ~ents'[pop.entity_iarray[r]].alloc
          /\ last'.tail
          /\ last'.dtor = pop.size - keep
          /\ (pop.size <= last'.arg => new = pop /\ ents' = ents)]_vars

(* ga_genocide removed two or more entities and left one. *)
C11_Witness ==
  /\ last.op = "ga_genocide" /\ err = "none"
  /\ last.arg = 1
  /\ last.dtor >= 2
  /\ pops[last.pop].size = 1

----------------------------------------------------------------------------
(* Properties of the population table. *)

(* The calls that enter a population into the table. *)
InsertOps == {"ga_population_new", "ga_population_clone_empty", "ga_resurect"}

(* The population a call of InsertOps entered, as the next state has it. *)
Inserted == IF last'.op = "ga_resurect" THEN last'.pop ELSE last'.ret

(* C12: for every population p in the table,                               *)
(* ga_get_population_from_id(ga_get_population_id(p)) is p, two different  *)
(* populations in the table have different ids, and a population that is   *)
(* entered gets an index that held no population when it was entered.      *)
C12_RegistryRoundTrip ==
  /\ [](\A p \in Registered :
          /\ ga_get_population_id(Now, p).ret # TABLE_ERROR_INDEX
          /\ ga_get_population_from_id(Now, ga_get_population_id(Now, p).ret).ret = p
          /\ \A q \in Registered \ {p} :
               ga_get_population_id(Now, p).ret # ga_get_population_id(Now, q).ret)
  /\ [][(last'.op \in InsertOps /\ err' = "none" /\ Inserted \in Registered')
          => LET id == table_lookup_index(pop_table', Inserted)
             IN ~pop_table.alloc \/ table_get_data(pop_table, id) = NULL]_vars

(* The id of the second population was asked for while the table held     *)
(* two, and it is the middle index: an index on one side of it is unused.  *)
C12_Witness ==
  /\ last.op = "ga_get_population_id"
  /\ err = "none"
  /\ last.pop = 2
  /\ Registered = {1, 2}
  /\ last.ret = 1

(* C13: ga_resurect(p) right after ga_transcend(id of p) returns a valid   *)
(* id, and ga_get_population_from_id of that id is p.                      *)
C13_TranscendThenResurect ==
  [][(/\ last.op = "ga_transcend" /\ last.ret # NULL
      /\ last'.op = "ga_resurect" /\ last'.pop = last.ret)
       => /\ err' = "none"
          /\ last'.ret # TABLE_ERROR_INDEX
          /\ ga_get_population_from_id(World(pops', ents', pop_table'), last'.ret).ret
               = last'.pop]_vars

----------------------------------------------------------------------------
(* Seeding. *)

(* The stable sizes of the populations that are seeded. *)
SeedStableSizes == {1, 2}

(* The seed functions a caller assigns to pop->seed. *)
SeedFunctions == {"ga_seed_printable_random", "user_seed_false"}

PopulationSeed(p, draw) ==
  /\ pops[p].size + pops[p].stable_size < pops[p].max_size
  /\ Does(Call("ga_population_seed", p, NULL), ga_population_seed(Now, p, draw))

(* An empty population whose seed callback is assigned. *)
InitSeed ==
  /\ \E stable_size \in SeedStableSizes, seed \in SeedFunctions :
       LET w0 == ga_genesis_char(World(NoPops, NoEnts, NoTable), stable_size, NumChromo,
                                 LenChromo, NoSeedCallbacks, 0, 0)
       IN /\ pops = [w0.pops EXCEPT ![w0.ret].cb["seed"] = seed]
          /\ ents = w0.ents
          /\ pop_table = w0.table
  /\ err = "none"
  /\ last = NoCall
  /\ ubs = 0
  /\ pop_table_lock = 0
  /\ threads = NoThreads
  /\ file = <<>>
  /\ mpi = <<>>
  /\ evolution = NoEvolution

(* SpecSeed: the population is seeded as a whole (while the pool need not  *)
(* grow) and entity by entity, and it is emptied.                          *)
NextSeed ==
  \E p \in LivePops :
    \/ \E draw \in Draws : PopulationSeed(p, draw)
    \/ GetFreeEntity(p, 1)
    \/ \E adam \in IdEntities(pops[p]), draw \in Draws : EntitySeed(p, adam, draw)
    \/ Genocide(p, 0, "continue")

SpecSeed == InitSeed /\ [][NextSeed]_vars

(* C16: ga_population_seed of an empty population with a seed callback     *)
(* leaves size = stable_size, and the seed callback was invoked            *)
(* stable_size times: the k-th invocation got the entity of rank k-1.      *)
C16_PopulationSeed ==
  [][(last'.op = "ga_population_seed" /\ pops[last'.pop].size = 0)
       => LET new == pops'[last'.pop]
          IN /\ err' = "none"
             /\ new.size = new.stable_size
             /\ Len(last'.seeds) = new.stable_size
             /\ \A k \in 1..new.stable_size :
                  /\ last'.seeds[k].ent = new.entity_iarray[k-1]
                  /\ ents'[last'.seeds[k].ent].alloc
                  /\ ~ents[last'.seeds[k].ent].alloc
             /\ \A j, k \in 1..new.stable_size :
                  j # k => last'.seeds[j].ent # last'.seeds[k].ent]_vars

(* An empty population of stable size 2 was seeded. *)
C16_Witness ==
  /\ last.op = "ga_population_seed"
  /\ err = "none"
  /\ pops[last.pop].stable_size = 2
  /\ pops[last.pop].size = 2
  /\ Len(last.seeds) = 2

(* C17: ga_entity_seed and ga_population_seed return TRUE exactly when     *)
(* every invocation of the seed callback they made returned TRUE.          *)
C17_SeedFailureIsReported ==
  [][(last'.op \in {"ga_entity_seed", "ga_population_seed"} /\ err' = "none")
       => (last'.ret = C_TRUE
             <=> \A k \in 1..Len(last'.seeds) : last'.seeds[k].ok = C_TRUE)]_vars

----------------------------------------------------------------------------
(* Properties of the snapshots. *)

(* C18: ga_population_read right after ga_population_write(p), p with      *)
(* callbacks that are all NULL or in the lookup table, returns a new       *)
(* population with the size, stable_size, num_chromosomes,                 *)
(* len_chromosomes, the three ratios, scheme, elitism and island of p      *)
(* whose entity of rank i has the fitness and the chromosome_to_bytes      *)
(* bytes of the entity of rank i of p.                                     *)
C18_SnapshotRoundTrip ==
  [][(/\ last.op = "ga_population_write" /\ last'.op = "ga_population_read"
      /\ \A s \in Slots : ga_funclookup_ptr_to_id(pops[last.pop].cb[s]) >= 0)
       => /\ err' = "none"
          /\ ~pops[last'.ret].alloc
          /\ LET p == pops[last.pop]
                 q == pops'[last'.ret]
             IN /\ q.alloc
                /\ q.size = p.size
                /\ q.stable_size = p.stable_size
                /\ q.num_chromosomes = p.num_chromosomes
                /\ q.len_chromosomes = p.len_chromosomes
                /\ q.crossover_ratio = p.crossover_ratio
                /\ q.mutation_ratio = p.mutation_ratio
                /\ q.migration_ratio = p.migration_ratio
                /\ q.scheme = p.scheme
                /\ q.elitism = p.elitism
                /\ q.island = p.island
                /\ \A i \in 0..(p.size-1) :
                     /\ ents'[q.entity_iarray[i]].alloc
                     /\ ents'[q.entity_iarray[i]].fitness = ents[p.entity_iarray[i]].fitness
                     /\ chromosome_to_bytes(q, ents'[q.entity_iarray[i]])
                          = chromosome_to_bytes(p, ents[p.entity_iarray[i]])]_vars

(* A population of two entities with the parameters of struggle3.c, one    *)
(* entity scored, was read back.                                           *)
C18_Witness ==
  /\ last.op = "ga_population_read"
  /\ err = "none"
  /\ last.ret # NULL
  /\ pops[last.ret].size = 2
  /\ pops[last.ret].scheme = StruggleParameters.scheme
  /\ pops[last.ret].cb["seed"] = "ga_seed_printable_random"
  /\ pops[last.ret].cb["evaluate"] = NULLFN
  /\ ents[pops[last.ret].entity_iarray[1]].fitness = 1

(* C19: ga_population_read of a population snapshot with a wrong format    *)
(* tag, a wrong version block or no END trailer returns an error (NULL)    *)
(* and leaves the populations and the table as they were.                  *)
C19_CorruptSnapshotIsReported ==
  [][(/\ last'.op = "ga_population_read"
      /\ Len(file) >= 13
      /\ \/ file[1] # FormatPopulation002
         \/ file[2] # VersionBlock
         \/ Len(file) # 14 + 3 * file[3])
       => /\ err' = "none"
          /\ last'.ret = NULL
          /\ pops' = pops
          /\ pop_table' = pop_table]_vars

(* C20: ga_entity_read(p) right after ga_entity_write(p, e) returns a new  *)
(* entity of p with the fitness and the chromosome_to_bytes bytes of e,    *)
(* and the file is as ga_entity_write left it.                             *)
C20_EntityRoundTrip ==
  [][(last.op = "ga_entity_write" /\ last'.op = "ga_entity_read" /\ last'.pop = last.pop)
       => /\ err' = "none"
          /\ ~ents[last'.ret].alloc
          /\ ents'[last'.ret].alloc
          /\ last'.ret \in IdEntities(pops'[last'.pop])
          /\ ents'[last'.ret].fitness = ents[last.ent].fitness
          /\ chromosome_to_bytes(pops'[last'.pop], ents'[last'.ret])
               = chromosome_to_bytes(pops[last.pop], ents[last.ent])
          /\ file' = file
          /\ file' = <<FormatEntity001, VersionBlock, ents[last.ent].fitness,
                       pops[last.pop].num_chromosomes * pops[last.pop].len_chromosomes,
                       chromosome_to_bytes(pops[last.pop], ents[last.ent]), "END">>]_vars

(***************************************************************************)
(* Byte layout of the head of a population file.                           *)
(***************************************************************************)

(* The characters of the format tag of ga_population_write. *)
format_str ==
  <<"F", "O", "R", "M", "A", "T", ":", " ", "G", "A", "U", "L", " ",
    "P", "O", "P", "U", "L", "A", "T", "I", "O", "N", " ", "0", "0", "2">>

(* strlen counting the terminator as well. *)
strlen_terminated(s) == Len(s) + 1

(* strlen: the characters before the terminator. *)
strlen(s) == Len(s)

(* for (i=0; i<64; i++) buffer[i]='\0';  fwrite(buffer, sizeof(char), 64, fp) *)
VERSION_FIELD_LEN == 64

(* Bytes the k-th fwrite of ga_population_write puts out, k = 1, 2. *)
FieldBytes(k) == IF k = 1 THEN strlen(format_str) ELSE VERSION_FIELD_LEN

(* The byte offset at which the k-th field of a population file starts. *)
RECURSIVE ByteOffset(_)
ByteOffset(k) == IF k <= 1 THEN 0 ELSE ByteOffset(k - 1) + FieldBytes(k - 1)

(* C21 (as amended): the format tag of a file written by                   *)
(* ga_population_write takes 27 bytes, the version field the 64 bytes      *)
(* after it, and the size field, the third item, starts at byte 91.        *)
C21_SizeFieldAt91 ==
  [][last'.op = "ga_population_write" /\ err' = "none"
       => /\ file'[1] = FormatPopulation002
          /\ file'[2] = VersionBlock
          /\ file'[3] = pops[last'.pop].size
          /\ ByteOffset(2) = 27
          /\ ByteOffset(3) - ByteOffset(2) = 64
          /\ ByteOffset(3) = 91]_vars

C21_Witness ==
  /\ last.op = "ga_population_write" /\ err = "none"
  /\ Len(file) > 13 /\ file[3] >= 1

(* C21 as stated: the format tag takes 28 bytes and the size field starts  *)
(* at byte 92.                                                             *)
C21_SizeFieldAt92 ==
  [][last'.op = "ga_population_write" /\ err' = "none"
       => /\ file'[1] = FormatPopulation002
          /\ ByteOffset(2) = 28
          /\ ByteOffset(3) = 92]_vars

(***************************************************************************)
(* Properties of the function lookup.                                      *)
(***************************************************************************)

(* The functions of the table, and functions of a program that uses the    *)
(* library.                                                                *)
BuiltinFunctions == {lookup[i] : i \in 2..Len(lookup)}
ExternalFunctions ==
  {"struggle_score", "struggle_generation_hook", "struggle_adaptation", "user_seed_false"}

(* The ids of the table entries, and the id of an external function. *)
LookupIds == (-1)..(Len(lookup) - 1)

FuncLookupPtrToId(func) ==
  Does(CallWith("ga_funclookup_ptr_to_id", NULL, NULL, func),
       [Now EXCEPT !.ret = ga_funclookup_ptr_to_id(func)])

FuncLookupIdToPtr(id) ==
  Does(CallWith("ga_funclookup_id_to_ptr", NULL, NULL, id),
       [Now EXCEPT !.ret = ga_funclookup_id_to_ptr(id)])

(* SpecLookup: a program asks for the id of a function and for the         *)
(* function of an id, in any order.                                        *)
NextLookup ==
  \/ \E func \in BuiltinFunctions \cup ExternalFunctions \cup {NULLFN} :
       FuncLookupPtrToId(func)
  \/ \E id \in LookupIds : FuncLookupIdToPtr(id)

SpecLookup == InitPool /\ [][NextLookup]_vars

(* C22: ga_funclookup_ptr_to_id returns 0 exactly for NULL, -1 exactly for *)
(* a function that is not in the table and a positive id for a function of *)
(* the table, different functions of the table get different ids, and      *)
(* ga_funclookup_id_to_ptr of the id just returned gives the function back *)
(* when it is in the table and NULL when the id is 0 or -1.                *)
C22_LookupIdsConsistent ==
  /\ [](last.op = "ga_funclookup_ptr_to_id"
          => /\ last.ret = 0 <=> last.arg = NULLFN
             /\ last.ret = -1 <=> last.arg \notin BuiltinFunctions \cup {NULLFN}
             /\ last.arg \in BuiltinFunctions => last.ret > 0)
  /\ [](last.op = "ga_funclookup_ptr_to_id" /\ last.arg \in BuiltinFunctions
          => \A g \in BuiltinFunctions :
               g # last.arg => ga_funclookup_ptr_to_id(g) # last.ret)
  /\ [][/\ last.op = "ga_funclookup_ptr_to_id"
        /\ last'.op = "ga_funclookup_id_to_ptr"
        /\ last'.arg = last.ret
        => /\ last.arg \in BuiltinFunctions => last'.ret = last.arg
           /\ last.ret \in {0, -1} => last'.ret = NULLFN]_vars

C22_Witness ==
  /\ last.op = "ga_funclookup_id_to_ptr" /\ err = "none"
  /\ last.arg = ga_funclookup_ptr_to_id("ga_chromosome_bitstring_to_string")
  /\ last.ret = "ga_chromosome_bitstring_to_string"

----------------------------------------------------------------------------
(* Migration: entities sent from the population of one node to the         *)
(* population of another.  mpi holds the messages in flight from the       *)
(* sending node to the receiving one, in the order they were sent.         *)

(* A message of the transport: count elements of the type, under a tag. *)
Message(tag, type, count, data) ==
  [tag |-> tag, type |-> type, count |-> count, data |-> data, src |-> 0, dest |-> 0]

(* mpi_send: the message is in flight from the node of the calling process *)
(* (w.node) to dest_node.                                                  *)
mpi_send(w, m, dest_node) ==
  IF w.err # "none" THEN w
  ELSE [w EXCEPT !.mpi = Append(@, [m EXCEPT !.src = w.node, !.dest = dest_node])]

(* mpi_receive: takes the first message in flight from src_node to the     *)
(* node of the calling process that has the tag; blocks while there is     *)
(* none; the type and the count of the message are those the receiver      *)
(* expects, or the transport ends the process.  The message received is    *)
(* the last one of w.recv.                                                 *)
mpi_receive(w, tag, type, count, src_node) ==
  LET S == {k \in 1..Len(w.mpi) : /\ w.mpi[k].tag = tag
                                  /\ w.mpi[k].src = src_node
                                  /\ w.mpi[k].dest = w.node}
  IN IF w.err # "none" THEN w
     ELSE IF S = {} THEN Fail(w, "hang")
     ELSE LET k == Min(S)
              m == w.mpi[k]
          IN IF m.type # type \/ m.count # count THEN Fail(w, "die")
             ELSE [w EXCEPT !.mpi = SubSeq(@, 1, k - 1) \o SubSeq(@, k + 1, Len(@)),
                            !.recv = Append(@, m)]

Received(w) == w.recv[Len(w.recv)].data

(* What a chromosome_to_bytes callback does when it is handed NULL for the *)
(* entity: it checks its argument and ends the process (as the callbacks   *)
(* of the library do), it faults, or it does not look at the entity.       *)
CallbackOnNull == {"die", "segv", "continue"}

(* A length taken from the first entity that leaves the entity unscored. *)
LengthOfFirst_unscored(w, p, cbn) ==
  LET pop == w.pops[p]
      joe == pop.entity_iarray[0]
  IN IF w.err # "none" THEN w
     ELSE IF pop.cb["chromosome_to_bytes"] = NULLFN THEN Fail(w, "segv")
     ELSE IF joe = NULL THEN Fail(w, "die")
     ELSE [w EXCEPT !.ret = Len(chromosome_to_bytes(pop, w.ents[joe])),
                    !.ents[joe].fitness = GA_MIN_FITNESS]

(* len = pop->chromosome_to_bytes(pop, pop->entity_iarray[0], ...): the    *)
(* length is w.ret.                                                        *)
LengthOfFirst(w, p, cbn) ==
  LET pop == w.pops[p]
      joe == pop.entity_iarray[0]
  IN IF w.err # "none" THEN w
     ELSE IF pop.cb["chromosome_to_bytes"] = NULLFN THEN Fail(w, "segv")
     ELSE IF joe = NULL
     THEN CASE cbn = "die" -> Fail(w, "die")
            [] cbn = "segv" -> Fail(w, "segv")
            [] OTHER -> [w EXCEPT !.ret = pop.num_chromosomes * pop.len_chromosomes,
                                  !.ubn = @ + 1]
     ELSE [w EXCEPT !.ret = Len(chromosome_to_bytes(pop, w.ents[joe]))]

(* for (i=0; i<pop->size && count<num_to_send; i++) if (send_mask[i]) ...  *)
(* w.ret is the count at the end of the loop.                              *)
RECURSIVE SendEntitiesFrom(_, _, _, _, _, _, _, _)
SendEntitiesFrom(w, p, dest_node, dest_len, i, count, num_to_send, send_mask) ==
  IF w.err # "none" THEN w
  ELSE IF i >= w.pops[p].size \/ count >= num_to_send THEN [w EXCEPT !.ret = count]
  ELSE IF ~send_mask[i]
  THEN SendEntitiesFrom(w, p, dest_node, dest_len, i + 1, count, num_to_send, send_mask)
  ELSE LET joe == w.ents[w.pops[p].entity_iarray[i]]
           buffer == chromosome_to_bytes(w.pops[p], joe)
           w1 == mpi_send(w, Message("GA_TAG_ENTITYFITNESS", "MPI_TYPE_DOUBLE", 1,
                                     joe.fitness), dest_node)
       IN IF dest_len # Len(buffer) THEN Fail(w1, "die")
          ELSE SendEntitiesFrom(
                 mpi_send(w1, Message("GA_TAG_ENTITYCHROMOSOME", "MPI_TYPE_BYTE",
                                      dest_len, buffer), dest_node),
                 p, dest_node, dest_len, i + 1, count + 1, num_to_send, send_mask)

(* ga_population_send_by_mask *)
ga_population_send_by_mask(w, p, dest_node, num_to_send, send_mask, cbn) ==
  LET w1 == mpi_send(w, Message("GA_TAG_NUMENTITIES", "MPI_TYPE_INT", 1, num_to_send),
                     dest_node)
      w2 == LengthOfFirst(w1, p, cbn)
      len == w2.ret
      w3 == mpi_send(w2, Message("GA_TAG_ENTITYLEN", "MPI_TYPE_INT", 1, len), dest_node)
      w4 == SendEntitiesFrom(w3, p, dest_node, len, 0, 0, num_to_send, send_mask)
  IN IF w2.err # "none" THEN w2
     ELSE IF w4.err # "none" THEN w4
     ELSE IF w4.ret # num_to_send THEN Fail(w4, "die")
     ELSE [w4 EXCEPT !.ret = NULL]

(* ga_population_send_every: the loop sends every rank. *)
ga_population_send_every(w, p, dest_node, cbn) ==
  IF p = NULL THEN Fail(w, "die")
  ELSE LET pop == w.pops[p]
           w1 == mpi_send(w, Message("GA_TAG_NUMENTITIES", "MPI_TYPE_INT", 1, pop.size),
                          dest_node)
           w2 == LengthOfFirst(w1, p, cbn)
           len == w2.ret
           w3 == mpi_send(w2, Message("GA_TAG_ENTITYLEN", "MPI_TYPE_INT", 1, len),
                          dest_node)
           w4 == SendEntitiesFrom(w3, p, dest_node, len, 0, 0, pop.size,
                                  [i \in 0..(pop.max_size - 1) |-> TRUE])
       IN IF w2.err # "none" THEN w2
          ELSE IF w4.err # "none" THEN w4
          ELSE [w4 EXCEPT !.ret = NULL]

(* A receive loop that leaves the fitness received in its message. *)
RECURSIVE ReceiveEntitiesFrom_unscored(_, _, _, _, _, _)
ReceiveEntitiesFrom_unscored(w, p, src_node, len, i, num_to_recv) ==
  IF w.err # "none" \/ i >= num_to_recv THEN w
  ELSE LET w1 == ga_get_free_entity(w, p)
           entity == w1.ret
           w2 == mpi_receive(w1, "GA_TAG_ENTITYFITNESS", "MPI_TYPE_DOUBLE", 1, src_node)
           w3 == mpi_receive(w2, "GA_TAG_ENTITYCHROMOSOME", "MPI_TYPE_BYTE", len,
                             src_node)
       IN IF w3.err # "none" THEN w3
          ELSE ReceiveEntitiesFrom_unscored(
                 [w3 EXCEPT !.ents[entity].chromosome =
                               chromosome_from_bytes(w3.pops[p], Received(w3))],
                 p, src_node, len, i + 1, num_to_recv)

(* for (i=0; i<num_to_recv; i++) { entity = ga_get_free_entity(pop); ... } *)
RECURSIVE ReceiveEntitiesFrom(_, _, _, _, _, _)
ReceiveEntitiesFrom(w, p, src_node, len, i, num_to_recv) ==
  IF w.err # "none" \/ i >= num_to_recv THEN w
  ELSE LET w1 == ga_get_free_entity(w, p)
           entity == w1.ret
           w2 == mpi_receive(w1, "GA_TAG_ENTITYFITNESS", "MPI_TYPE_DOUBLE", 1, src_node)
           w3 == mpi_receive(w2, "GA_TAG_ENTITYCHROMOSOME", "MPI_TYPE_BYTE", len,
                             src_node)
       IN IF w3.err # "none" THEN w3
          ELSE IF w3.pops[p].cb["chromosome_from_bytes"] = NULLFN THEN Fail(w3, "segv")
          ELSE ReceiveEntitiesFrom(
                 [w3 EXCEPT !.ents[entity].fitness = Received(w2),
                            !.ents[entity].chromosome =
                               chromosome_from_bytes(w3.pops[p], Received(w3))],
                 p, src_node, len, i + 1, num_to_recv)

(* ga_population_append_receive *)
ga_population_append_receive(w, p, src_node) ==
  IF p = NULL THEN Fail(w, "die")
  ELSE LET w1 == mpi_receive(w, "GA_TAG_NUMENTITIES", "MPI_TYPE_INT", 1, src_node)
           w2 == mpi_receive(w1, "GA_TAG_ENTITYLEN", "MPI_TYPE_INT", 1, src_node)
       IN IF w2.err # "none" THEN w2
          ELSE [ReceiveEntitiesFrom(w2, p, src_node, Received(w2), 0, Received(w1))
                  EXCEPT !.ret = NULL]

(* The most entities the sending population holds and a call announces. *)
MaxSend == 2
(* The most entities the receiving population holds before it receives. *)
MaxHeld == 4

SendOps == {"ga_population_send_by_mask", "ga_population_send_every"}

(* The nodes of the sending and of the receiving process. *)
SendingNode == 0
ReceivingNode == 1

(* The operation is called by the process of the node. *)
OnNode(node) == [Now EXCEPT !.node = node]

SendByMask(p, num_to_send, send_mask, cbn) ==
  LET w == ga_population_send_by_mask(OnNode(SendingNode), p, ReceivingNode,
                                      num_to_send, send_mask, cbn)
  IN /\ Chosen(w, cbn)
     /\ Does(CallWith("ga_population_send_by_mask", p, NULL, num_to_send), w)

SendEvery(p, cbn) ==
  LET w == ga_population_send_every(OnNode(SendingNode), p, ReceivingNode, cbn)
  IN /\ Chosen(w, cbn)
     /\ Does(Call("ga_population_send_every", p, NULL), w)

(* The receiving node is a process of its own: it makes its call whether   *)
(* the sending process returned from its call or ended in it.              *)
AppendReceive(p) ==
  LET w == ga_population_append_receive(OnNode(ReceivingNode), p, SendingNode)
  IN /\ last.op \in SendOps
     /\ err # "hang"
     /\ w.err = "none" => w.pops[p].max_size <= MaxSlots
     /\ Effect(Call("ga_population_append_receive", p, NULL), w)
     /\ UNCHANGED <<pop_table_lock, threads>>

(* The population of the sending node (seeded at its creation, or empty)   *)
(* and the population of the receiving node, of the same dimensions and    *)
(* callbacks.                                                              *)
InitMigrate ==
  /\ \E draw \in Draws, user \in {StruggleCallbacks, NoSeedCallbacks} :
       LET w0 == ga_genesis_char(World(NoPops, NoEnts, NoTable), 1, NumChromo,
                                 LenChromo, user, 0, draw)
           w1 == ga_genesis_char(w0, 1, NumChromo, LenChromo, NoSeedCallbacks, 1, 0)
       IN /\ pops = [a \in PopAddrs |->
                      IF w1.pops[a].alloc
                      THEN [w1.pops[a] EXCEPT !.cb = GenesisCallbacks(StruggleCallbacks)]
                      ELSE w1.pops[a]]
          /\ ents = w1.ents
          /\ pop_table = w1.table
  /\ err = "none"
  /\ last = NoCall
  /\ ubs = 0
  /\ pop_table_lock = 0
  /\ threads = NoThreads
  /\ file = <<>>
  /\ mpi = <<>>
  /\ evolution = NoEvolution

SendingPop == 1
ReceivingPop == 2

(* SpecMigrate: the two populations get and lose entities, the sending     *)
(* node makes one transfer and the receiving node receives it; a run is    *)
(* followed up to the receiving.                                           *)
NextMigrate ==
  \/ /\ last.op \notin SendOps \cup {"ga_population_append_receive"}
     /\ \/ GetFreeEntity(SendingPop, MaxSend)
        \/ \E adam \in IdEntities(pops[SendingPop]), draw \in Draws :
             EntitySeed(SendingPop, adam, draw)
        \/ \E e \in IdEntities(pops[SendingPop]), fitness \in Fitnesses :
             EntitySetFitness(SendingPop, e, fitness)
        \/ GetFreeEntity(ReceivingPop, MaxHeld)
        \/ \E cbn \in CallbackOnNull : SendEvery(SendingPop, cbn)
        \/ \E num_to_send \in 0..MaxSend, cbn \in CallbackOnNull :
             \E send_mask \in [0..(pops[SendingPop].size - 1) -> BOOLEAN] :
               SendByMask(SendingPop, num_to_send, send_mask, cbn)
  \/ AppendReceive(ReceivingPop)

SpecMigrate == InitMigrate /\ [][NextMigrate]_vars

----------------------------------------------------------------------------
(* Properties of the migration. *)

TagsOf(ms) == [k \in 1..Len(ms) |-> <<ms[k].tag, ms[k].type>>]

(* The tags and types of a transfer of n entities. *)
WireTags(n) ==
  [k \in 1..(2 + 2 * n) |->
     IF k = 1 THEN <<"GA_TAG_NUMENTITIES", "MPI_TYPE_INT">>
     ELSE IF k = 2 THEN <<"GA_TAG_ENTITYLEN", "MPI_TYPE_INT">>
     ELSE IF k % 2 = 1 THEN <<"GA_TAG_ENTITYFITNESS", "MPI_TYPE_DOUBLE">>
     ELSE <<"GA_TAG_ENTITYCHROMOSOME", "MPI_TYPE_BYTE">>]

(* ms is the transfer of the entities that pop has at the ranks given. *)
IsTransferOf(ms, pop, es, ranks) ==
  /\ TagsOf(ms) = WireTags(Len(ranks))
  /\ ms[1].data = Len(ranks)
  /\ \A j \in 1..Len(ranks) :
       LET joe == es[pop.entity_iarray[ranks[j]]]
       IN /\ ms[2 * j + 1].data = joe.fitness
          /\ ms[2 * j + 2].count = ms[2].data
          /\ Len(ms[2 * j + 2].data) = ms[2].data
          /\ ms[2 * j + 2].data = chromosome_to_bytes(pop, joe)

(* ms is the transfer of some entities of pop in increasing rank order. *)
IsTransfer(ms, pop, es) ==
  /\ Len(ms) >= 2
  /\ TagsOf(ms) = WireTags((Len(ms) - 2) \div 2)
  /\ \E ranks \in [1..ms[1].data -> 0..(pop.size - 1)] :
       /\ \A a, b \in 1..ms[1].data : a < b => ranks[a] < ranks[b]
       /\ IsTransferOf(ms, pop, es, ranks)

(* C23: what ga_population_send_by_mask or ga_population_send_every puts   *)
(* in flight is NUMENTITIES, ENTITYLEN and, for each entity sent in        *)
(* increasing rank order, ENTITYFITNESS and ENTITYCHROMOSOME of L bytes;   *)
(* ga_population_append_receive paired with the sender receives in that    *)
(* tag order, returns, and leaves no message in flight.                    *)
C23_TransferCompletes ==
  /\ [][last'.op \in SendOps => IsTransfer(mpi', pops[last'.pop], ents)]_vars
  /\ [][last.op \in SendOps /\ last'.op = "ga_population_append_receive"
          => /\ err' = "none"
             /\ mpi' = <<>>
             /\ TagsOf(last'.recv) = TagsOf(mpi)]_vars

(* C24: when ga_population_append_receive returns from a transfer that     *)
(* announced n entities, the size of the population is n more than before, *)
(* the entities at the n ranks from the old size on were not allocated     *)
(* before and have, in the order sent, the fitness and the chromosome      *)
(* bytes of the messages, every entity held before keeps its rank and its  *)
(* id, and max_size is large enough for them.                              *)
C24_AppendReceive ==
  [][last'.op = "ga_population_append_receive" /\ err' = "none"
       => LET p == last'.pop
              n == mpi[1].data
              old == pops[p]
              new == pops'[p]
          IN /\ new.size = old.size + n
             /\ new.size <= new.max_size
             /\ new.max_size >= old.max_size
             /\ \A j \in 1..n :
                  LET e == new.entity_iarray[old.size + j - 1]
                  IN /\ e # NULL
                     /\ ~ents[e].alloc
                     /\ ents'[e].alloc
                     /\ \A r \in 0..(new.size - 1) :
                          new.entity_iarray[r] = e => r = old.size + j - 1
                     /\ ents'[e].fitness = mpi[2 * j + 1].data
                     /\ chromosome_to_bytes(new, ents'[e]) = mpi[2 * j + 2].data
             /\ \A r \in 0..(old.size - 1) :
                  LET e == old.entity_iarray[r]
                  IN /\ new.entity_iarray[r] = e
                     /\ ga_get_entity_id(new, e) = ga_get_entity_id(old, e)
                     /\ ents'[e] = ents[e]]_vars

C24_Witness ==
  /\ last.op = "ga_population_append_receive" /\ err = "none"
  /\ Len(last.recv) = 6
  /\ pops[last.pop].size = 5
  /\ pops[last.pop].max_size = 6
  /\ ents[pops[last.pop].entity_iarray[4]].fitness = 1

----------------------------------------------------------------------------
(* The systematic search of one allele (ga_allele_search of ga_utility.c)  *)
(* and the entity operations it uses.                                      *)

(* ga_entity_clear_data: the phenome item of one chromosome is released    *)
(* through data_destructor (called without a test for NULL) and its place  *)
(* in the list set to NULL.  slink_data of a place beyond the list faults. *)
ga_entity_clear_data(w, p, entity, chromosome) ==
  LET data == w.ents[entity].data
  IN IF w.err # "none" THEN w
     ELSE IF data = NoData THEN w
     ELSE IF chromosome \notin DOMAIN data THEN Fail(w, "segv")
     ELSE IF data[chromosome] = NULL THEN w
     ELSE IF w.pops[p].cb["data_destructor"] = NULLFN THEN Fail(w, "segv")
     ELSE [w EXCEPT !.ents[entity].data[chromosome] = NULL, !.ddtor = @ + 1,
                    !.hooks = @ \o HookCalls("data_destructor", <<data[chromosome]>>)]

(* ga_entity_blank *)
ga_entity_blank(w, p, entity) ==
  IF w.err # "none" THEN w
  ELSE [ClearUserData(w, p, entity) EXCEPT !.ents[entity].fitness = GA_MIN_FITNESS]

(* The fitnesses an evaluate callback stores: above GA_MIN_FITNESS, which  *)
(* stands for "never evaluated".                                           *)
EvalFitnesses == {1, 2}
(* The evaluate callback of the caller scores an entity by a table, from   *)
(* the value (modulo the length of the table) of the first allele of its   *)
(* first chromosome.                                                       *)
ScoreValues == 3
ScoreTables == [0..(ScoreValues - 1) -> EvalFitnesses]

(* pop->evaluate(pop, entity): stores the fitness. *)
pop_evaluate(w, p, entity, score) ==
  IF w.err # "none" THEN w
  ELSE IF w.pops[p].cb["evaluate"] = NULLFN THEN Fail(w, "segv")
  ELSE LET fitness == score[w.ents[entity].chromosome[1][1] % ScoreValues]
       IN [w EXCEPT !.ents[entity].fitness = fitness,
                    !.evals = Append(@, [ent |-> entity,
                                         chromosome |-> w.ents[entity].chromosome,
                                         fitness |-> fitness])]

(* A search loop that leaves out the last value of the range. *)
RECURSIVE AlleleSearchFrom_short(_, _, _, _, _, _, _, _, _)
AlleleSearchFrom_short(w, p, chromosomeid, point, val, max_val, current, best, score) ==
  IF w.err # "none" \/ val >= max_val - 1 THEN w
  ELSE LET w1 == [w EXCEPT !.ents[current].chromosome[chromosomeid + 1][point + 1] = val]
           w2 == ga_entity_clear_data(w1, p, current, chromosomeid + 1)
           w3 == pop_evaluate(w2, p, current, score)
           w4 == IF w3.ents[best].fitness < w3.ents[current].fitness
                 THEN ga_entity_copy(ga_entity_blank(w3, p, best), p, best, current)
                 ELSE ga_entity_copy(ga_entity_blank(w3, p, current), p, current, best)
       IN AlleleSearchFrom_short(IF w3.err # "none" THEN w3 ELSE w4, p, chromosomeid,
                                 point, val + 1, max_val, current, best, score)

(* for (val = min_val; val < max_val; val++) { ... } *)
RECURSIVE AlleleSearchFrom(_, _, _, _, _, _, _, _, _)
AlleleSearchFrom(w, p, chromosomeid, point, val, max_val, current, best, score) ==
  IF w.err # "none" \/ val >= max_val THEN w
  ELSE LET w1 == [w EXCEPT !.ents[current].chromosome[chromosomeid + 1][point + 1] = val]
           w2 == ga_entity_clear_data(w1, p, current, chromosomeid + 1)
           w3 == pop_evaluate(w2, p, current, score)
           w4 == IF w3.ents[best].fitness < w3.ents[current].fitness
                 THEN ga_entity_copy(ga_entity_blank(w3, p, best), p, best, current)
                 ELSE ga_entity_copy(ga_entity_blank(w3, p, current), p, current, best)
       IN AlleleSearchFrom(IF w3.err # "none" THEN w3 ELSE w4, p, chromosomeid,
                           point, val + 1, max_val, current, best, score)

(* A search that keeps its working entity in the population. *)
ga_allele_search_kept(w, p, chromosomeid, point, min_val, max_val, initial, score, draw, ub) ==
  LET w1 == ga_get_free_entity(w, p)
      current == w1.ret
      w2 == ga_get_free_entity(w1, p)
      best == w2.ret
      w4 == ga_entity_copy(ga_entity_copy(w2, p, best, initial), p, current, best)
      w5 == [w4 EXCEPT !.ents[best].fitness = GA_MIN_FITNESS]
      w6 == AlleleSearchFrom(w5, p, chromosomeid, point, min_val, max_val,
                             current, best, score)
  IN IF w4.err # "none" THEN w4 ELSE [w6 EXCEPT !.ret = best]

(* ga_allele_search.  The chromosome and the point are counted from 0. *)
ga_allele_search(w, p, chromosomeid, point, min_val, max_val, initial, score, draw, ub) ==
  IF p = NULL THEN Fail(w, "die")
  ELSE LET w1 == ga_get_free_entity(w, p)
           current == w1.ret
           w2 == ga_get_free_entity(w1, p)
           best == w2.ret
           w3 == IF w2.err # "none" THEN w2
                 ELSE IF initial # NULL THEN ga_entity_copy(w2, p, best, initial)
                 ELSE IF w2.pops[p].cb["seed"] = NULLFN THEN Fail(w2, "segv")
                 ELSE pop_seed(w2, p, best, draw)
           w4 == ga_entity_copy(w3, p, current, best)
           w5 == [w4 EXCEPT !.ents[best].fitness = GA_MIN_FITNESS]
           w6 == AlleleSearchFrom(w5, p, chromosomeid, point, min_val, max_val,
                                  current, best, score)
           w7 == ga_entity_dereference(w6, p, current, ub)
       IN IF w4.err # "none" THEN w4
          ELSE IF w7.err # "none" THEN w7
          ELSE [w7 EXCEPT !.ret = best]

(* The most entities the population holds before a search. *)
MaxSearched == 2

AlleleSearch(p, chromosomeid, point, min_val, max_val, initial, score, draw, ub) ==
  LET w == ga_allele_search(Now, p, chromosomeid, point, min_val, max_val, initial,
                            score, draw, ub)
  IN /\ Chosen(w, ub)
     /\ Does([op |-> "ga_allele_search", pop |-> p, ent |-> initial,
              arg |-> [chromosomeid |-> chromosomeid, point |-> point,
                       min_val |-> min_val, max_val |-> max_val, score |-> score]], w)

(* SpecSearch: a population seeded at its creation gets entities and       *)
(* scores, and one allele of one of its entities is searched; a run is     *)
(* followed up to the search.                                              *)
NextSearch ==
  \E p \in LivePops :
    /\ last.op # "ga_allele_search"
    /\ \/ GetFreeEntity(p, MaxSearched)
       \/ \E e \in IdEntities(pops[p]), fitness \in Fitnesses :
            EntitySetFitness(p, e, fitness)
       \/ \E initial \in IdEntities(pops[p]), score \in ScoreTables :
            \E chromosomeid \in 0..(pops[p].num_chromosomes - 1),
               point \in 0..(pops[p].len_chromosomes - 1),
               min_val \in 0..ScoreValues :
              \E max_val \in min_val..ScoreValues :
                AlleleSearch(p, chromosomeid, point, min_val, max_val, initial,
                             score, 0, "continue")

SpecSearch == InitSnap /\ [][NextSearch]_vars

----------------------------------------------------------------------------
(* Properties of the allele search. *)

C26_AlleleSearchFrame ==
  [][last'.op = "ga_allele_search" /\ err' = "none"
       => LET a == last'.arg
              old == pops[last'.pop]
              new == pops'[last'.pop]
              initial == last'.ent
              best == last'.ret
          IN /\ ents'[initial] = ents[initial]
             /\ \A c \in 1..old.num_chromosomes, l \in 1..old.len_chromosomes :
                  <<c, l>> # <<a.chromosomeid + 1, a.point + 1>>
                    => ents'[best].chromosome[c][l] = ents[initial].chromosome[c][l]
             /\ new.size = old.size + 1
             /\ new.entity_iarray[new.size - 1] = best
             /\ ~ents[best].alloc
             /\ IdEntities(new) = IdEntities(old) \cup {best}
             /\ RankEntities(new) = RankEntities(old) \cup {best}
             /\ {e \in EntAddrs : ents'[e].alloc} = {e \in EntAddrs : ents[e].alloc} \cup {best}
             /\ \A e \in IdEntities(old) :
                  /\ ga_get_entity_rank(new, e) = ga_get_entity_rank(old, e)
                  /\ ga_get_entity_id(new, e) = ga_get_entity_id(old, e)
                  /\ ents'[e] = ents[e]]_vars

C26_Witness ==
  /\ last.op = "ga_allele_search" /\ err = "none"
  /\ pops[last.pop].size = 3
  /\ pops[last.pop].max_size = 6
  /\ ga_get_entity_rank(pops[last.pop], last.ret) = 2
  /\ ga_get_entity_rank(pops[last.pop], last.ent) = 1
  /\ Len(last.evals) = 2
  /\ ents[last.ret].chromosome # ents[last.ent].chromosome

----------------------------------------------------------------------------
(* The phenome lists of the entities (entity->data) and the operations     *)
(* that copy, attach and release them.                                     *)

(* ga_entity_copy_chromosome; chromo is counted from 0. *)
ga_entity_copy_chromosome(w, p, dest, src, chromo) ==
  IF w.err # "none" THEN w
  ELSE IF dest = NULL \/ src = NULL THEN Fail(w, "die")
  ELSE IF chromo < 0 \/ chromo >= w.pops[p].num_chromosomes THEN Fail(w, "die")
  ELSE IF w.ents[dest].data # NoData THEN Fail(w, "die")
  ELSE LET w1 == ga_copy_data(w, p, dest, src, chromo + 1)
       IN IF w1.err # "none" THEN w1
          ELSE [ga_copy_chromosome(w1, p, dest, src, chromo + 1) EXCEPT !.ret = C_TRUE]

(* ga_entity_set_data: when the entity has a list, data_destructor is      *)
(* invoked on every item of the list passed in (this = data), NULL items   *)
(* included, and the list the entity had is freed; the list passed in      *)
(* becomes the list of the entity.                                         *)
ga_entity_set_data(w, p, e, data) ==
  IF p = NULL \/ e = NULL THEN [w EXCEPT !.ret = C_FALSE]
  ELSE LET destroyed == IF w.ents[e].data # NoData
                           /\ w.pops[p].cb["data_destructor"] # NULLFN
                        THEN HookCalls("data_destructor", data)
                        ELSE <<>>
       IN [w EXCEPT !.ents[e].data = data,
                    !.ddtor = @ + Len(destroyed),
                    !.hooks = @ \o destroyed,
                    !.ret = C_TRUE]

(* The phenome objects of the caller. *)
PhenomeObjects == {1, 2}

(* The places of the phenome lists of all entities that point to d. *)
PhenomeSlots(es, d) ==
  {<<e, i>> \in EntAddrs \X (1..2) : i \in DOMAIN es[e].data /\ es[e].data[i] = d}

(* The lists a caller attaches to an entity of pop: one place for each     *)
(* chromosome, holding NULL or an object made for the place, which no      *)
(* entity refers to yet.                                                   *)
FreshLists(pop, es) ==
  {data \in [1..pop.num_chromosomes -> PhenomeObjects \cup {NULL}] :
     /\ \A i \in DOMAIN data : data[i] # NULL => PhenomeSlots(es, data[i]) = {}
     /\ \A i, j \in DOMAIN data : i # j /\ data[i] # NULL => data[i] # data[j]}

EntityCopy(p, dest, src) ==
  Does(Call("ga_entity_copy", p, dest), ga_entity_copy(Now, p, dest, src))

EntityCopyAllChromosomes(p, dest, src) ==
  Does(Call("ga_entity_copy_all_chromosomes", p, dest),
       ga_entity_copy_all_chromosomes(Now, p, dest, src))

EntityCopyChromosome(p, dest, src, chromo) ==
  Does(CallWith("ga_entity_copy_chromosome", p, dest, chromo),
       ga_entity_copy_chromosome(Now, p, dest, src, chromo))

EntityBlank(p, entity) ==
  Does(Call("ga_entity_blank", p, entity), ga_entity_blank(Now, p, entity))

EntityClearData(p, entity, chromosome) ==
  Does(CallWith("ga_entity_clear_data", p, entity, chromosome),
       ga_entity_clear_data(Now, p, entity, chromosome + 1))

EntitySetData(p, e, data) ==
  Does(CallWith("ga_entity_set_data", p, e, data), ga_entity_set_data(Now, p, e, data))

(* The hooks of a caller that keeps reference counts in its objects. *)
PhenomeCallbacks ==
  [NoSeedCallbacks EXCEPT !["data_destructor"] = "user_data_destructor",
                          !["data_ref_incrementor"] = "user_data_ref_incrementor"]

(* The numbers of chromosomes of the populations of SpecData. *)
DataChromosomes == {1, 2}

(* An empty population with both phenome hooks. *)
InitData ==
  /\ \E num_chromo \in DataChromosomes :
       LET w0 == ga_genesis_char(World(NoPops, NoEnts, NoTable), 1, num_chromo,
                                 LenChromo, PhenomeCallbacks, 0, 0)
       IN /\ pops = w0.pops
          /\ ents = w0.ents
          /\ pop_table = w0.table
  /\ err = "none"
  /\ last = NoCall
  /\ ubs = 0
  /\ pop_table_lock = 0
  /\ threads = NoThreads
  /\ file = <<>>
  /\ mpi = <<>>
  /\ evolution = NoEvolution

(* The most entities of the population of SpecData. *)
MaxData == 2

(* SpecData: the entities of one population are allocated, copied,         *)
(* cloned, blanked, given phenome lists and released.                      *)
NextData ==
  \E p \in LivePops :
    \/ GetFreeEntity(p, MaxData)
    \/ \E parent \in IdEntities(pops[p]) : EntityClone(p, parent, MaxData)
    \/ \E dest, src \in IdEntities(pops[p]) :
         \/ dest # src /\ EntityCopy(p, dest, src)
         \/ dest # src /\ EntityCopyAllChromosomes(p, dest, src)
         \/ \E chromo \in 0..(pops[p].num_chromosomes - 1) :
              dest # src /\ EntityCopyChromosome(p, dest, src, chromo)
    \/ \E entity \in IdEntities(pops[p]) :
         \/ EntityBlank(p, entity)
         \/ \E chromosome \in 0..(pops[p].num_chromosomes - 1) :
              EntityClearData(p, entity, chromosome)
         \/ \E data \in FreshLists(pops[p], ents) : EntitySetData(p, entity, data)
         \/ Dereference(p, entity, "continue")

SpecData == InitData /\ [][NextData]_vars

----------------------------------------------------------------------------
(* Properties of the phenome lists. *)

DataOps ==
  {"ga_get_free_entity", "ga_entity_copy", "ga_entity_copy_all_chromosomes",
   "ga_entity_copy_chromosome", "ga_entity_clone", "ga_entity_blank",
   "ga_entity_clear_data", "ga_entity_set_data"}

(* C27: after each of the entity operations returns, the phenome list of   *)
(* every entity is empty or has num_chromosomes places.                    *)
C27_PhenomeListLength ==
  [][last'.op \in DataOps /\ err' = "none"
       => \A e \in IdEntities(pops'[last'.pop]) :
            \/ ents'[e].data = NoData
            \/ Len(ents'[e].data) = pops'[last'.pop].num_chromosomes]_vars

PhenomeOps ==
  {"ga_entity_copy", "ga_entity_clone", "ga_entity_blank", "ga_entity_clear_data",
   "ga_entity_set_data", "ga_entity_dereference"}

(* The number of invocations of the hook on d in a call. *)
HookCount(call, hook, d) ==
  Cardinality({k \in 1..Len(call.hooks) :
                 call.hooks[k].hook = hook /\ call.hooks[k].data = d})

(* The number of places of the list a ga_entity_set_data call attached     *)
(* that hold d.                                                            *)
Attached(call, d) ==
  IF call.op = "ga_entity_set_data"
  THEN Cardinality({i \in DOMAIN call.arg : call.arg[i] = d})
  ELSE 0

(* C28: with both hooks defined, each operation on the phenome lists       *)
(* changes the number of places that refer to an object d by the attach it *)
(* made, plus its data_ref_incrementor(d) calls, minus its                 *)
(* data_destructor(d) calls; so the number of places that refer to d is 1  *)
(* (the attach) plus the retains minus the releases, d is not released     *)
(* while a place refers to it, and it is released once when the last       *)
(* reference goes.                                                         *)
C28_PhenomeReferences ==
  [][last'.op \in PhenomeOps /\ err' = "none"
       => \A d \in PhenomeObjects :
            Cardinality(PhenomeSlots(ents', d))
              = Cardinality(PhenomeSlots(ents, d)) + Attached(last', d)
                + HookCount(last', "data_ref_incrementor", d)
                - HookCount(last', "data_destructor", d)]_vars

(***************************************************************************)
(* Sorting.  sort_population orders the first size ranks of the rank index *)
(* by fitness, best first; which of several entities of equal fitness      *)
(* comes first is not fixed, so the order is an input: order[r] is the old *)
(* rank of the entity that ends at rank r.  A run is followed up to its    *)
(* sort.                                                                   *)
(***************************************************************************)
Orders(n) ==
  {o \in [0..(n - 1) -> 0..(n - 1)] : \A i, j \in 0..(n - 1) : i # j => o[i] # o[j]}

RankFitness(w, p, r) == w.ents[w.pops[p].entity_iarray[r]].fitness

SortedOrders(w, p) ==
  {o \in Orders(w.pops[p].size) :
     \A i, j \in 0..(w.pops[p].size - 1) :
       i < j => RankFitness(w, p, o[i]) >= RankFitness(w, p, o[j])}

sort_population_kept(w, p, order) == w

sort_population(w, p, order) ==
  [w EXCEPT !.pops[p].entity_iarray =
     [r \in DOMAIN @ |-> IF r < w.pops[p].size THEN @[order[r]] ELSE @[r]]]

ga_population_sort(w, p, order) ==
  IF w.err # "none" THEN w
  ELSE IF p = NULL THEN Fail(w, "die")
  ELSE [sort_population(w, p, order) EXCEPT !.ret = C_TRUE]

(* The loop of ga_population_score_and_sort from rank i on. *)
RECURSIVE ScoreFrom(_, _, _, _)
ScoreFrom(w, p, i, score) ==
  IF w.err # "none" \/ i >= w.pops[p].size THEN w
  ELSE ScoreFrom(pop_evaluate(w, p, w.pops[p].entity_iarray[i], score), p, i + 1, score)

ga_population_score_and_sort(w, p, score, order) ==
  IF w.err # "none" THEN w
  ELSE IF p = NULL THEN Fail(w, "die")
  ELSE LET scored == ScoreFrom(w, p, 0, score)
       IN IF scored.err # "none" THEN scored
          ELSE [sort_population(scored, p, order) EXCEPT !.ret = C_TRUE]

PopulationSort(p) ==
  \E order \in SortedOrders(Now, p) :
    Does(Call("ga_population_sort", p, NULL), ga_population_sort(Now, p, order))

PopulationScoreAndSort(p, score) ==
  LET scored == ScoreFrom(Now, p, 0, score)
  IN \E order \in IF scored.err = "none" THEN SortedOrders(scored, p)
                  ELSE Orders(pops[p].size) :
       Does(CallWith("ga_population_score_and_sort", p, NULL, score),
            ga_population_score_and_sort(Now, p, score, order))

\* live entities of the population that is sorted
MaxSorted == 3

SortOps == {"ga_population_sort", "ga_population_score_and_sort"}

NextSort ==
  \E p \in LivePops :
    /\ last.op \notin SortOps
    /\ \/ GetFreeEntity(p, MaxSorted)
       \/ \E adam \in IdEntities(pops[p]), draw \in Draws : EntitySeed(p, adam, draw)
       \/ \E e \in IdEntities(pops[p]), fitness \in Fitnesses :
            EntitySetFitness(p, e, fitness)
       \/ PopulationSort(p)
       \/ \E score \in ScoreTables : PopulationScoreAndSort(p, score)

SpecSort == InitSnap /\ [][NextSort]_vars

(***************************************************************************)
(* Properties of the sort.                                                 *)
(***************************************************************************)
(* C29: ga_population_sort and ga_population_score_and_sort leave the rank *)
(* index with the same entities as before, fitness not increasing with the *)
(* rank, and the id index as it was; ga_population_score_and_sort has      *)
(* evaluated each entity of the rank index exactly once.                   *)
C29_SortOrdersByFitness ==
  [][last'.op \in SortOps /\ err' = "none"
       => LET old == pops[last'.pop]
              new == pops'[last'.pop]
          IN /\ new.size = old.size
             /\ RankEntities(new) = RankEntities(old)
             /\ Cardinality(RankEntities(new)) = new.size
             /\ \A i, j \in 0..(new.size - 1) :
                  i < j => ents'[new.entity_iarray[i]].fitness
                             >= ents'[new.entity_iarray[j]].fitness
             /\ new.entity_array = old.entity_array
             /\ last'.op = "ga_population_score_and_sort"
                  => /\ Len(last'.evals) = old.size
                     /\ {last'.evals[k].ent : k \in 1..Len(last'.evals)}
                          = RankEntities(old)
                     /\ \A k \in 1..Len(last'.evals) :
                          ents'[last'.evals[k].ent].fitness = last'.evals[k].fitness
             /\ last'.op = "ga_population_sort"
                  => /\ last'.evals = <<>>
                     /\ ents' = ents]_vars

C29_Witness ==
  /\ last.op = "ga_population_score_and_sort"
  /\ err = "none"
  /\ pops[last.pop].size = 3
  /\ ents[pops[last.pop].entity_iarray[0]].fitness
       > ents[pops[last.pop].entity_iarray[2]].fitness
  /\ pops[last.pop].entity_iarray[0] = last.evals[3].ent
  /\ pops[last.pop].entity_iarray[2] = last.evals[1].ent

(***************************************************************************)
(* Rank queries.                                                           *)
(***************************************************************************)
(* ga_get_entity_rank_from_id: first rank below size that holds the entity *)
(* of the id slot, else -1.                                                *)
ga_get_entity_rank_from_id(pop, id) ==
  LET S == {r \in 0..(pop.size-1) : r \in DOMAIN pop.entity_iarray
                                    /\ pop.entity_iarray[r] = pop.entity_array[id]}
  IN IF S = {} THEN -1 ELSE Min(S)

GetEntityRank(p, e) ==
  Does(Call("ga_get_entity_rank", p, e),
       [Now EXCEPT !.ret = ga_get_entity_rank(pops[p], e)])

GetEntityRankFromId(p, id) ==
  Does(CallWith("ga_get_entity_rank_from_id", p, NULL, id),
       [Now EXCEPT !.ret = ga_get_entity_rank_from_id(pops[p], id)])

\* live entities of the population that is queried
MaxRanked == 3

RankOps == {"ga_get_entity_rank", "ga_get_entity_rank_from_id"}

(* A pool whose entities come and go by rank and by id, with the queries   *)
(* made in every state it reaches.                                         *)
NextRank ==
  \E p \in LivePops :
    \/ /\ last.op \notin RankOps
       /\ \/ GetFreeEntity(p, MaxRanked)
          \/ \E rank \in 0..(pops[p].size-1), ub \in UBOutcomes :
               /\ IsLiveAddr(Now, pops[p].entity_iarray[rank])
               /\ DereferenceByRank(p, rank, ub)
          \/ \E id \in DOMAIN pops[p].entity_array, ub \in UBOutcomes :
               /\ pops[p].entity_array[id] # NULL
               /\ DereferenceById(p, id, ub)
    \/ /\ err = "none"
       /\ \/ \E e \in EntAddrs \cup {NULL} : GetEntityRank(p, e)
          \/ \E id \in DOMAIN pops[p].entity_array : GetEntityRankFromId(p, id)

SpecRank == InitPool /\ [][NextRank]_vars

(* C30: ga_get_entity_rank answers -1 exactly when e is at no rank below   *)
(* size, and otherwise the one rank that holds e;                          *)
(* ga_get_entity_rank_from_id answers -1 exactly when the id slot is       *)
(* empty.                                                                  *)
C30_RankQueries ==
  [][last'.op \in RankOps /\ err' = "none"
       => LET pop == pops'[last'.pop]
              held(e) == {r \in 0..(pop.size - 1) : pop.entity_iarray[r] = e}
          IN /\ last'.op = "ga_get_entity_rank"
                  => /\ last'.ret = -1 <=> held(last'.ent) = {}
                     /\ last'.ret # -1 => held(last'.ent) = {last'.ret}
             /\ last'.op = "ga_get_entity_rank_from_id"
                  => (last'.ret = -1 <=> pop.entity_array[last'.arg] = NULL)]_vars

(***************************************************************************)
(* The generational driver, ga_evolution.  It is called on a seeded and    *)
(* scored population; generation_hook is asked at every generation         *)
(* boundary, first with 0, whether to go on; a generation sorts, breeds    *)
(* and scores children, sorts again and keeps the best stable_size         *)
(* entities; the driver returns the number of generations it reached.      *)
(* Scheme and elitism are GA_SCHEME_DARWIN and                             *)
(* GA_ELITISM_PARENTS_SURVIVE.                                             *)
(***************************************************************************)
(* An order that sorts by fitness and puts the newest first among equals.  *)
NewestFirstOrder(w, p) ==
  LET ranks == 0..(w.pops[p].size - 1)
      ahead(k) == {j \in ranks : \/ RankFitness(w, p, j) > RankFitness(w, p, k)
                                 \/ /\ RankFitness(w, p, j) = RankFitness(w, p, k)
                                    /\ j > k}
  IN [r \in ranks |-> CHOOSE k \in ranks : Cardinality(ahead(k)) = r]

(* The order that sorts by fitness, best first, and keeps entities of      *)
(* equal fitness in the order they had: children are appended after their  *)
(* parents, so ties go to the parents.                                     *)
StableOrder(w, p) ==
  LET ranks == 0..(w.pops[p].size - 1)
      ahead(k) == {j \in ranks : \/ RankFitness(w, p, j) > RankFitness(w, p, k)
                                 \/ /\ RankFitness(w, p, j) = RankFitness(w, p, k)
                                    /\ j < k}
  IN [r \in ranks |-> CHOOSE k \in ranks : Cardinality(ahead(k)) = r]

(* The fitness function of the driver's runs: the first allele decides. *)
EvolveScore == [v \in 0..(ScoreValues - 1) |-> v + 1]

(* crossover and mutate: one child per draw, appended and scored. *)
RECURSIVE Breed(_, _, _)
Breed(w, p, children) ==
  IF w.err # "none" \/ children = <<>> THEN w
  ELSE LET w1 == ga_get_free_entity(w, p)
           child == w1.ret
           w2 == IF w1.err # "none" THEN w1
                 ELSE [w1 EXCEPT !.ents[child].chromosome =
                         [c \in 1..w.pops[p].num_chromosomes |->
                            [a \in 1..w.pops[p].len_chromosomes |-> Head(children)]]]
       IN Breed(pop_evaluate(w2, p, child, EvolveScore), p, Tail(children))

(* The call: the driver is at its first generation boundary. *)
ga_evolution(w, p, max_generations) ==
  IF w.err # "none" THEN w
  ELSE IF p = NULL THEN Fail(w, "die")
  ELSE [w EXCEPT !.evolution = [at |-> "hook", pop |-> p, generation |-> 0,
                                max_generations |-> max_generations,
                                reason |-> "none"]]

(* The generation boundary: generation_hook(generation, pop), where there  *)
(* is one, decides whether the driver goes on; so does the budget.         *)
ga_evolution_boundary(w, continue) ==
  LET e == w.evolution
      go == w.pops[e.pop].cb["generation_hook"] = NULLFN \/ continue
      reason == IF ~go THEN "hook"
                ELSE IF e.generation >= e.max_generations THEN "budget" ELSE "none"
  IN [w EXCEPT !.evolution = [e EXCEPT !.at = IF reason = "none" THEN "generation"
                                               ELSE "return",
                                       !.reason = reason],
               !.ret = IF go THEN C_TRUE ELSE C_FALSE]

(* One generation. *)
ga_evolution_generation(w, children) ==
  LET e == w.evolution
      p == e.pop
      w1 == sort_population(w, p, StableOrder(w, p))
      w2 == Breed(w1, p, children)
      w3 == sort_population(w2, p, StableOrder(w2, p))
      w4 == ga_genocide(w3, p, w.pops[p].stable_size, "continue")
  IN IF w2.err # "none" THEN w2
     ELSE [w4 EXCEPT !.pops[p].generation = e.generation + 1,
                     !.evolution = [e EXCEPT !.at = "hook",
                                            !.generation = e.generation + 1]]

(* The return: the generations reached. *)
ga_evolution_return(w) ==
  [w EXCEPT !.evolution = [@ EXCEPT !.at = "idle"], !.ret = w.evolution.generation]

(* What main prints for the value ga_evolution returned. *)
main_report(ret) ==
  IF ret # 0 THEN "The evolution was stopped because the termination criteria were met."
  ELSE "The evolution was stopped because the maximum number of generations were performed."

Evolution(p, max_generations) ==
  /\ evolution.at = "idle"
  /\ Does(CallWith("ga_evolution", p, NULL, max_generations),
          ga_evolution(Now, p, max_generations))

GenerationHook(continue) ==
  /\ evolution.at = "hook"
  /\ Does(CallWith("generation_hook", evolution.pop, NULL, evolution.generation),
          ga_evolution_boundary(Now, continue))

Generation(children) ==
  /\ evolution.at = "generation"
  /\ Does(CallWith("generation", evolution.pop, NULL, children),
          ga_evolution_generation(Now, children))

EvolutionReturn ==
  /\ evolution.at = "return"
  /\ Does(CallWith("return", evolution.pop, NULL, main_report(evolution.generation)),
          ga_evolution_return(Now))

\* generations ga_evolution is allowed
MaxGenerations == 2
\* children bred in one generation
MaxChildren == 2

EvolveStableSizes == {1, 2}

RECURSIVE ChildDraws(_)
ChildDraws(n) ==
  IF n = 0 THEN {<<>>}
  ELSE ChildDraws(n - 1)
         \cup {Append(c, v) : c \in {d \in ChildDraws(n - 1) : Len(d) = n - 1},
                              v \in 0..(ScoreValues - 1)}

InitEvolve ==
  /\ \E stable_size \in EvolveStableSizes, draw \in Draws :
       LET w0 == ga_genesis_char(World(NoPops, NoEnts, NoTable), stable_size, NumChromo,
                                 LenChromo, StruggleCallbacks, 0, draw)
           w1 == ga_population_set_parameters(w0, w0.ret, "GA_SCHEME_DARWIN",
                                              "GA_ELITISM_PARENTS_SURVIVE", 80, 5, 0)
       IN /\ pops = w1.pops
          /\ ents = w1.ents
          /\ pop_table = w1.table
  /\ err = "none"
  /\ last = NoCall
  /\ ubs = 0
  /\ pop_table_lock = 0
  /\ threads = NoThreads
  /\ file = <<>>
  /\ mpi = <<>>
  /\ evolution = NoEvolution

(* A population is seeded, scored and then evolved once. *)
NextEvolve ==
  \/ \E p \in LivePops :
       \/ /\ last.op \in {"none", "ga_entity_seed"}
          /\ \E adam \in IdEntities(pops[p]), draw \in Draws : EntitySeed(p, adam, draw)
       \/ /\ last.op \in {"none", "ga_entity_seed"}
          /\ PopulationScoreAndSort(p, EvolveScore)
       \/ /\ last.op = "ga_population_score_and_sort"
          /\ \E max_generations \in 0..MaxGenerations : Evolution(p, max_generations)
  \/ \E continue \in BOOLEAN : GenerationHook(continue)
  \/ \E children \in ChildDraws(MaxChildren) : Generation(children)
  \/ EvolutionReturn

SpecEvolve == InitEvolve /\ [][NextEvolve]_vars

(***************************************************************************)
(* Properties of the driver.                                               *)
(***************************************************************************)
(* C31: when generation_hook answers false at generation g, the driver     *)
(* starts no further generation and returns with g generations completed,  *)
(* and the value it returns tells a stop by the hook from a used-up        *)
(* budget: it differs from what the driver returns when the budget runs    *)
(* out, and main reports the criteria as met exactly for a stop by the     *)
(* hook.                                                                   *)
C31_HookStopsEvolution ==
  /\ [][last.op = "generation_hook" /\ last.ret = C_FALSE
          => /\ last'.op = "return"
             /\ last'.ret = last.arg
             /\ pops' = pops /\ ents' = ents
             /\ pops'[last'.pop].generation = last.arg \/ last.arg = 0]_vars
  /\ [][last'.op = "return" /\ evolution.reason = "hook"
          => /\ last'.ret # evolution.max_generations
             /\ last'.arg = main_report(1)]_vars
  /\ [][last'.op = "return" /\ evolution.reason = "budget"
          => /\ last'.ret = evolution.max_generations
             /\ last'.arg = main_report(0)]_vars

----------------------------------------------------------------------------
(* The migration round of the archipelago driver (ga_evolution_archipelago *)
(* and ga_evolution_archipelago_mp of ga_optim.h): every deme sends its    *)
(* emigrants to the next deme of the ring, appends what the deme before it *)
(* sent, and dereferences down to stable_size.  Each deme is the           *)
(* population of a process of its own: the node d holds the deme d.        *)

(* The population of the deme d, d in 0..num_pops-1. *)
Deme(d) == d + 1

(* m_d = round(migration_ratio * stable_size), the ratio in hundredths. *)
Emigrants(pop) ==
  (2 * pop.migration_ratio * pop.stable_size + RATIO_ONE) \div (2 * RATIO_ONE)

(* The mask of the top-ranked m entities. *)
TopMask(pop, m) == [r \in 0..(pop.size - 1) |-> r < m]

(* An emigrant leaves for whatever deme follows in the table of demes,     *)
(* without the wrap of the ring.                                           *)
NextInLine(d, num_pops) == d + 1

(* The neighbours of the directed ring d -> (d+1) mod N. *)
RingNext(d, num_pops) == (d + 1) % num_pops
RingPrev(d, num_pops) == (d + num_pops - 1) % num_pops

(* The round begins after the generation of every deme. *)
ga_archipelago_round(w, num_pops) ==
  [w EXCEPT !.evolution = [at |-> "migration", num_pops |-> num_pops,
                           sent |-> {}, received |-> {}, culled |-> {}]]

(* The deme d sends its emigrants to its neighbour. *)
ga_archipelago_emigrate(w, d, cbn) ==
  LET e == w.evolution
      pop == w.pops[Deme(d)]
      m == Emigrants(pop)
      w1 == ga_population_send_by_mask([w EXCEPT !.node = d], Deme(d),
                                       RingNext(d, e.num_pops), m, TopMask(pop, m), cbn)
  IN [w1 EXCEPT !.evolution = [e EXCEPT !.sent = @ \cup {d}]]

(* The deme d appends the immigrants the deme before it sent. *)
ga_archipelago_immigrate(w, d) ==
  LET e == w.evolution
      w1 == ga_population_append_receive([w EXCEPT !.node = d], Deme(d),
                                         RingPrev(d, e.num_pops))
  IN [w1 EXCEPT !.evolution = [e EXCEPT !.received = @ \cup {d}]]

(* The deme d dereferences its worst entities down to stable_size. *)
ga_archipelago_cull(w, d) ==
  LET e == w.evolution
      p == Deme(d)
      w1 == sort_population(w, p, StableOrder(w, p))
      w2 == ga_genocide(w1, p, w.pops[p].stable_size, "continue")
  IN [w2 EXCEPT !.evolution = [e EXCEPT !.culled = @ \cup {d}]]

(* Each process sends, then receives (waiting for the message), then       *)
(* culls.                                                                  *)
Emigrate(d, cbn) ==
  LET w == ga_archipelago_emigrate(Now, d, cbn)
  IN /\ evolution.at = "migration"
     /\ d \notin evolution.sent
     /\ Chosen(w, cbn)
     /\ Does(CallWith("emigrate", Deme(d), NULL, d), w)

Immigrate(d) ==
  LET w == ga_archipelago_immigrate(Now, d)
  IN /\ evolution.at = "migration"
     /\ d \in evolution.sent
     /\ d \notin evolution.received
     /\ w.err # "hang"
     /\ Does(CallWith("immigrate", Deme(d), NULL, d), w)

Cull(d) ==
  /\ evolution.at = "migration"
  /\ d \in evolution.received
  /\ d \notin evolution.culled
  /\ Does(CallWith("cull", Deme(d), NULL, d), ga_archipelago_cull(Now, d))

NumDemes == 2
DemeStableSizes == {1, 2}
MigrationRatios == {0, 50, RATIO_ONE}

(* A deme after its generation: stable_size scored entities in rank order. *)
ga_archipelago_deme(w, d, stable_size, draw, migration) ==
  LET w0 == ga_genesis_char(w, stable_size, NumChromo, LenChromo,
                            StruggleCallbacks, d, draw)
      w1 == ga_population_set_parameters(w0, w0.ret, "GA_SCHEME_DARWIN",
                                         "GA_ELITISM_PARENTS_SURVIVE", 80, 5, migration)
  IN ga_population_score_and_sort(w1, w0.ret, EvolveScore, StableOrder(w1, w0.ret))

(* The caller makes the demes one after the other, all of one stable_size. *)
Settle(stable_size, draw, migration) ==
  LET d == Cardinality(LivePops)
  IN /\ evolution.at = "idle"
     /\ d < NumDemes
     /\ \A p \in LivePops : pops[p].stable_size = stable_size
     /\ Does(CallWith("settle", Deme(d), NULL, d),
             ga_archipelago_deme(Now, d, stable_size, draw, migration))

(* The driver is called on the demes made so far and comes to the          *)
(* migration of its generation.                                            *)
Round ==
  /\ evolution.at = "idle"
  /\ LivePops # {}
  /\ Does(CallWith("round", NULL, NULL, Cardinality(LivePops)),
          ga_archipelago_round(Now, Cardinality(LivePops)))

InitArchipelago ==
  /\ pops = NoPops
  /\ ents = NoEnts
  /\ pop_table = NoTable
  /\ err = "none"
  /\ last = NoCall
  /\ ubs = 0
  /\ pop_table_lock = 0
  /\ threads = NoThreads
  /\ file = <<>>
  /\ mpi = <<>>
  /\ evolution = NoEvolution

NextArchipelago ==
  \/ \E stable_size \in DemeStableSizes, draw \in Draws, migration \in MigrationRatios :
       Settle(stable_size, draw, migration)
  \/ Round
  \/ \E d \in 0..(NumDemes - 1) :
       /\ Deme(d) \in LivePops
       /\ \/ \E cbn \in CallbackOnNull : Emigrate(d, cbn)
          \/ Immigrate(d)
          \/ Cull(d)

SpecArchipelago == InitArchipelago /\ [][NextArchipelago]_vars

(* The entities held by all demes, and the entity records in flight. *)
RECURSIVE SumOver(_, _)
SumOver(S, f) == IF S = {} THEN 0
                 ELSE LET x == CHOOSE y \in S : TRUE IN f[x] + SumOver(S \ {x}, f)

TotalLive == SumOver(LivePops, [p \in PopAddrs |-> pops[p].size])
InTransit(src, dest) ==
  Cardinality({k \in 1..Len(mpi) : /\ mpi[k].tag = "GA_TAG_ENTITYCHROMOSOME"
                                   /\ mpi[k].src = src /\ mpi[k].dest = dest})

(* The emigrants of the deme d. *)
EmigrantsOf(d) == Emigrants(pops[Deme(d)])

(* C33: in a migration round over the ring d -> (d+1) mod N no call fails; *)
(* a deme holds stable_size entities, and its immigrants from when it      *)
(* received them until it culls; the entity records in flight to a deme    *)
(* are the emigrants of the deme before it, from when that deme sent them  *)
(* until the deme received them, and nothing else is in flight; what a     *)
(* deme sends is its top-ranked emigrants, and the sending leaves every    *)
(* deme as it was; when every deme has culled, nothing is in flight and    *)
(* the demes hold N * stable_size entities in all.                         *)
C33_MigrationConserves ==
  /\ [](evolution.at = "migration" =>
        LET N == evolution.num_pops
            D == 0..(N - 1)
        IN /\ err = "none"
           /\ \A d \in D :
                /\ pops[Deme(d)].size
                     = pops[Deme(d)].stable_size
                       + (IF d \in evolution.received \ evolution.culled
                          THEN EmigrantsOf(RingPrev(d, N)) ELSE 0)
                /\ \A from \in D :
                     InTransit(from, d)
                       = IF from = RingPrev(d, N) /\ from \in evolution.sent
                            /\ d \notin evolution.received
                         THEN EmigrantsOf(from) ELSE 0
           /\ \A k \in 1..Len(mpi) : mpi[k].src \in D /\ mpi[k].dest \in D
           /\ evolution.culled = D
                => /\ mpi = <<>>
                   /\ TotalLive = N * pops[Deme(0)].stable_size)
  /\ [][last'.op = "emigrate"
          => LET pop == pops[last'.pop]
                 m == Emigrants(pop)
             IN /\ pops' = pops /\ ents' = ents
                /\ Len(mpi') = Len(mpi) + 2 + 2 * m
                /\ IsTransferOf(SubSeq(mpi', Len(mpi) + 1, Len(mpi')), pop, ents,
                                [j \in 1..m |-> j - 1])]_vars
  /\ [][last'.op = "immigrate"
          => LET d == last'.arg
                 p == last'.pop
                 m == EmigrantsOf(RingPrev(d, evolution.num_pops))
             IN /\ \A q \in LivePops \ {p} : pops'[q] = pops[q]
                /\ \A j \in 1..m :
                     LET e == pops'[p].entity_iarray[pops[p].size + j - 1]
                     IN /\ ~ents[e].alloc
                        /\ ents'[e].fitness = last'.recv[2 * j + 1].data
                        /\ chromosome_to_bytes(pops'[p], ents'[e])
                             = last'.recv[2 * j + 2].data]_vars

C33_Witness ==
  /\ evolution.at = "migration" /\ evolution.num_pops = 2
  /\ evolution.culled = {0, 1}
  /\ last.op = "cull" /\ err = "none"
  /\ pops[Deme(0)].stable_size = 2
  /\ EmigrantsOf(0) = 2 /\ EmigrantsOf(1) = 1
  /\ TotalLive = 4
  /\ ents[pops[Deme(0)].entity_iarray[0]].fitness
       > ents[pops[Deme(0)].entity_iarray[1]].fitness

(* C37: whatever the mask, a call of ga_population_send_by_mask puts in    *)
(* flight as many entity records as the NUMENTITIES message it sent first  *)
(* announces, those of entities of the population in increasing rank       *)
(* order, and the ga_population_append_receive paired with it is not left  *)
(* waiting for a message.                                                  *)
C37_MaskedCountSent ==
  /\ [][last'.op = "ga_population_send_by_mask"
          => /\ Len(mpi') >= 2
             /\ mpi'[1].tag = "GA_TAG_NUMENTITIES"
             /\ mpi'[1].data = last'.arg
             /\ InTransit(SendingNode, ReceivingNode) ' = last'.arg
             /\ IsTransfer(mpi', pops[last'.pop], ents)]_vars
  /\ [][last.op = "ga_population_send_by_mask"
          /\ last'.op = "ga_population_append_receive"
          => err' # "hang"]_vars

(* C38: a call of ga_population_send_by_mask or ga_population_send_every,  *)
(* however it ends, leaves the sending population as it was (size, rank    *)
(* index, id index, every field) and every entity as it was (fitness,      *)
(* chromosomes, phenome data), also when the population is empty or the    *)
(* count to send is 0; nothing is registered or removed.                   *)
C38_SendKeepsPopulation ==
  [][last'.op \in SendOps
       => /\ pops' = pops
          /\ ents' = ents
          /\ pop_table' = pop_table]_vars

C38_Witness ==
  /\ last.op = "ga_population_send_every" /\ err = "none"
  /\ pops[last.pop].size = 2
  /\ Len(mpi) = 6
  /\ mpi[3].data = 1
  /\ ents[pops[last.pop].entity_iarray[0]].fitness = 1

----------------------------------------------------------------------------
(* The growth and the scan of ga_get_free_entity. *)

(* C34: a call of ga_get_free_entity that returns changes max_size exactly *)
(* when size = max_size held before it; max_size is then                   *)
(* floor(3 * max_size / 2) and the id and rank slots from the old max_size *)
(* on are empty but for the slot given to the entity returned; when        *)
(* size < max_size held before the call, max_size is as before.            *)
C34_GrowsWhenFull ==
  [][(last'.op = "ga_get_free_entity" /\ err' = "none")
       => LET old == pops[last'.pop]
              new == pops'[last'.pop]
          IN IF old.size = old.max_size
             THEN /\ new.max_size = (3 * old.max_size) \div 2
                  /\ \A i \in old.max_size..(new.max_size - 1) :
                       /\ new.entity_array[i] \in {NULL, last'.ret}
                       /\ new.entity_iarray[i] \in {NULL, last'.ret}
             ELSE new.max_size = old.max_size]_vars

(* The id slots the scan of ga_get_free_entity may visit: those of the     *)
(* pool after the growth check.                                            *)
EmptyIdSlots(pop) ==
  {i \in 0..(GrowPool(pop).max_size - 1) : GrowPool(pop).entity_array[i] = NULL}

(* C35: in every reachable state of a population, when the scan of         *)
(* ga_get_free_entity starts (after the growth check) size < max_size, at  *)
(* least one id slot is empty and free_index is in [0, max_size), so no    *)
(* call of ga_get_free_entity scans for ever.                              *)
C35_ScanTerminates ==
  /\ [](\A p \in LivePops :
          LET pop == GrowPool(pops[p])
          IN /\ pop.size < pop.max_size
             /\ EmptyIdSlots(pops[p]) # {}
             /\ pop.free_index \in 0..(pop.max_size - 1))
  /\ [][last'.op = "ga_get_free_entity" => err' # "hang"]_vars

----------------------------------------------------------------------------
(* Lookups by id and by rank. *)

(* ga_get_entity_from_id: NULL for an id above max_size, else the word at  *)
(* entity_array[id]; with id = max_size that word lies beyond the array.   *)
ga_get_entity_from_id(w, p, id, ub) ==
  IF w.err # "none" THEN w
  ELSE IF p = NULL THEN Fail(w, "die")
  ELSE IF id > w.pops[p].max_size THEN [w EXCEPT !.ret = NULL]
  ELSE IF id = w.pops[p].max_size
  THEN IF ub = "segv" THEN Fail(w, "segv")
       ELSE [w EXCEPT !.ret = IF ub = "null" THEN NULL ELSE Garbage, !.ubn = @ + 1]
  ELSE [w EXCEPT !.ret = w.pops[p].entity_array[id]]

(* ga_get_entity_id_from_rank: first id below max_size whose slot holds    *)
(* what entity_iarray[rank] holds, else -1.                                *)
ga_get_entity_id_from_rank(pop, rank) ==
  LET S == {i \in 0..(pop.max_size-1) : pop.entity_array[i] = pop.entity_iarray[rank]}
  IN IF S = {} THEN -1 ELSE Min(S)

GetEntityFromId(p, id, ub) ==
  LET w == ga_get_entity_from_id(Now, p, id, ub)
  IN /\ Chosen(w, ub)
     /\ Does(CallWith("ga_get_entity_from_id", p, NULL, id), w)

GetEntityIdFromRank(p, rank) ==
  Does(CallWith("ga_get_entity_id_from_rank", p, NULL, rank),
       [Now EXCEPT !.ret = ga_get_entity_id_from_rank(pops[p], rank)])

\* live entities of the population that is looked up
MaxIndexed == 3

IndexOps == {"ga_get_entity_from_id", "ga_get_entity_id_from_rank"}

(* SpecIndex: a pool whose entities come and go by rank, with a lookup     *)
(* made in every state it reaches.                                         *)
NextIndex ==
  \E p \in LivePops :
    \/ /\ last.op \notin IndexOps
       /\ \/ GetFreeEntity(p, MaxIndexed)
          \/ \E rank \in 0..(pops[p].size-1) : DereferenceByRank(p, rank, "continue")
    \/ /\ last.op \notin IndexOps
       /\ \/ \E id \in 0..(pops[p].max_size + 1), ub \in UBOutcomes :
               GetEntityFromId(p, id, ub)
          \/ \E rank \in 0..(pops[p].max_size - 1) : GetEntityIdFromRank(p, rank)

SpecIndex == InitPool /\ [][NextIndex]_vars

(* C40: ga_get_entity_from_id returns the entity of the id slot for an id  *)
(* below max_size (NULL when the slot is empty) and NULL, without fault,   *)
(* for every id from max_size on; ga_get_entity_id_from_rank returns the   *)
(* id of the entity at rank r for r below size, an id that                 *)
(* ga_get_entity_rank_from_id takes back to r, and -1 for every r from     *)
(* size up to max_size-1.                                                  *)
C40_LookupsAgree ==
  [][last'.op \in IndexOps
       => LET pop == pops[last'.pop]
              arg == last'.arg
          IN /\ err' = "none"
             /\ ubs' = ubs
             /\ last'.op = "ga_get_entity_from_id"
                  => last'.ret = IF arg < pop.max_size THEN pop.entity_array[arg] ELSE NULL
             /\ last'.op = "ga_get_entity_id_from_rank"
                  => IF arg < pop.size
                     THEN /\ last'.ret \in 0..(pop.max_size - 1)
                          /\ pop.entity_array[last'.ret] = pop.entity_iarray[arg]
                          /\ ga_get_entity_rank_from_id(pop, last'.ret) = arg
                     ELSE last'.ret = -1]_vars

----------------------------------------------------------------------------
(* The end of a population. *)

\* entities of a population that becomes extinct
MaxDoomed == 2

(* Two registered populations with both phenome hooks. *)
InitExtinct ==
  /\ LET w0 == ga_genesis_char(World(NoPops, NoEnts, NoTable), 1, NumChromo,
                               LenChromo, PhenomeCallbacks, 0, 0)
         w1 == ga_genesis_char(w0, 1, NumChromo, LenChromo, PhenomeCallbacks, 1, 0)
     IN /\ pops = w1.pops
        /\ ents = w1.ents
        /\ pop_table = w1.table
  /\ err = "none"
  /\ last = NoCall
  /\ ubs = 0
  /\ pop_table_lock = 0
  /\ threads = NoThreads
  /\ file = <<>>
  /\ mpi = <<>>
  /\ evolution = NoEvolution

(* SpecExtinct: the populations get entities, then the first entity of a   *)
(* population a phenome list; then populations are taken out of the table  *)
(* and become extinct.                                                     *)
NextExtinct ==
  \/ \E id \in TableIds : Transcend(id)
  \/ \E p \in LivePops :
       \/ /\ last.op \in {"none", "ga_get_free_entity"}
          /\ GetFreeEntity(p, MaxDoomed)
       \/ /\ last.op \notin {"ga_transcend", "ga_extinction"}
          /\ pops[p].size > 0
          /\ LET entity == pops[p].entity_iarray[0]
             IN /\ ents[entity].data = NoData
                /\ \E data \in FreshLists(pops[p], ents) : EntitySetData(p, entity, data)
       \/ Extinction(p, "continue")

SpecExtinct == InitExtinct /\ [][NextExtinct]_vars

(* The places of the phenome lists of the entities of pop that hold d. *)
PhenomePlaces(pop, es, d) ==
  {s \in PhenomeSlots(es, d) : s[1] \in IdEntities(pop)}

(* C39: ga_extinction of a population that is in the table returns, takes  *)
(* the population and no other out of the table, runs the chromosome       *)
(* destructor once for each of its entities and data_destructor once for   *)
(* each item of their phenome lists, leaves none of them allocated and     *)
(* frees the population; ga_extinction of a population that is not in the  *)
(* table, whether or not the table exists, ends the process and has by     *)
(* then released no entity, called no destructor and left the table and    *)
(* every population as they were.                                          *)
C39_Extinction ==
  [][last'.op = "ga_extinction"
       => LET p == last'.pop
              w == ga_extinction(Now, p, "continue")
          IN IF p \in Registered
             THEN /\ err' = "none"
                  /\ Registered' = Registered \ {p}
                  /\ pop_table'.alloc <=> Registered' # {}
                  /\ last'.dtor = pops[p].size
                  /\ \A k \in 1..Len(last'.hooks) : last'.hooks[k].hook = "data_destructor"
                  /\ \A d \in PhenomeObjects :
                       Cardinality({k \in 1..Len(last'.hooks) : last'.hooks[k].data = d})
                         = Cardinality(PhenomePlaces(pops[p], ents, d))
                  /\ \A e \in IdEntities(pops[p]) : ents[e].alloc /\ ~ents'[e].alloc
                  /\ ~pops'[p].alloc
                  /\ \A q \in LivePops \ {p} :
                       /\ pops'[q] = pops[q]
                       /\ \A e \in IdEntities(pops[q]) : ents'[e] = ents[e]
             ELSE /\ err' = "die"
                  /\ w.err = "die"
                  /\ w.table = pop_table
                  /\ w.pops = pops
                  /\ w.ents = ents
                  /\ w.dtor = 0
                  /\ w.hooks = <<>>]_vars

(* A population with two entities and a phenome item became extinct. *)
C39_Witness ==
  /\ last.op = "ga_extinction" /\ err = "none"
  /\ last.dtor = 2
  /\ Len(last.hooks) = 1
  /\ Registered # {}

----------------------------------------------------------------------------
(* Insertions racing with removals. *)

(* The calls that put a population into the table or take one out of it:   *)
(* those of part_000, which lock, and ga_transcend of src/ga_core.c, which *)
(* does not.                                                               *)
RaceCalls ==
  {c \in TableCalls : c.fn \in {"ga_population_new", "ga_population_clone_empty",
                                "ga_transcend", "ga_extinction"}}
    \cup {[fn |-> "ga_transcend", file |-> "ga_core.c", locks |-> FALSE]}

(* Two threads write pop_table at once: the thread ta inside its critical  *)
(* section and the thread tb that took no lock.  The write of ta is lost   *)
(* under the write of tb, which started from the table as it was, or the   *)
(* process faults.  (That one write follows the other is the two steps of  *)
(* ThreadAccess.)                                                          *)
ThreadRace(ta, tb, index, ub) ==
  LET wa == TableAccess(Now, threads[ta], index)
      wb == TableAccess(Now, threads[tb], index)
      w == IF ub = "segv" THEN Fail(wa, "segv")
           ELSE [wa EXCEPT !.table = wb.table, !.ubn = @ + 1]
  IN /\ ta # tb
     /\ threads[ta].at = "access" /\ pop_table_lock = ta
     /\ threads[tb].at = "access" /\ pop_table_lock # tb
     /\ ub \in {"null", "segv"}
     /\ wa.err = "none" /\ wb.err = "none"
     /\ Returns(CallWith(threads[ta].fn, threads[ta].pop, NULL, threads[ta].id), w)
     /\ threads' = [threads EXCEPT ![ta].at = "unlock", ![tb] = Idle]
     /\ UNCHANGED pop_table_lock

(* The index table_add picks, while the table has one unused. *)
LowestUnused(table) ==
  IF UnusedIds(table) = {} THEN {} ELSE {Min(UnusedIds(table))}

(* SpecRace: the threads make and remove populations in any interleaving. *)
NextRace ==
  \E t \in Threads :
    \/ \E c \in RaceCalls, p \in LivePops \cup {NULL}, id \in TableIds :
         ThreadCall(t, c, p, id)
    \/ ThreadLock(t)
    \/ \E index \in LowestUnused(pop_table) : ThreadAccess(t, index)
    \/ \E index \in LowestUnused(pop_table), tb \in Threads, ub \in {"null", "segv"} :
         ThreadRace(t, tb, index, ub)
    \/ ThreadUnlock(t)

SpecRace == InitPops /\ [][NextRace]_vars

(* The id of a registered population. *)
IdOf(table, p) == table_lookup_index(table, p)

(* The thread t is at pop_table in this step. *)
AtTable(t) == threads[t].at = "access" /\ threads'[t].at # "access"

(* C36: in every interleaving of ga_population_new and                     *)
(* ga_population_clone_empty with ga_transcend and ga_extinction, an       *)
(* insertion adds the new population to those registered and a removal     *)
(* takes out the one population it names, every other registered           *)
(* population keeping its id, also when the table is torn down or made in  *)
(* that step; no two registered populations share an id, and               *)
(* ga_get_population_id finds each of them under the id that               *)
(* ga_get_population_from_id takes back to it.                             *)
C36_NoRegistrationLost ==
  /\ [](\A p \in Registered :
          /\ pops[p].alloc
          /\ ga_get_population_id(Now, p).ret # TABLE_ERROR_INDEX
          /\ ga_get_population_from_id(Now, ga_get_population_id(Now, p).ret).ret = p
          /\ \A q \in Registered : q # p => IdOf(pop_table, q) # IdOf(pop_table, p))
  /\ [][\A t \in Threads :
          AtTable(t) /\ err' = "none"
            => /\ threads[t].fn \in {"ga_population_new", "ga_population_clone_empty"}
                    => /\ last'.ret \notin Registered
                       /\ Registered' = Registered \cup {last'.ret}
               /\ threads[t].fn = "ga_transcend"
                    => /\ last'.ret = ga_get_population_from_id(Now, threads[t].id).ret
                       /\ Registered' = Registered \ {last'.ret}
               /\ threads[t].fn = "ga_extinction"
                    => Registered' = Registered \ {threads[t].pop}
               /\ \A q \in Registered \cap Registered' :
                    IdOf(pop_table', q) = IdOf(pop_table, q)]_vars

====
